---- MODULE Spec2Model ----
(***************************************************************************)
(* Model of gelf.  One run is one of the programs below, chosen by flow:    *)
(*   - "commit": the commit TUI (package ui, type model)                   *)
(*   - "pr": the pull-request TUI (internal/ui/pr.go, type prModel)        *)
(*   - "spinner": a command run under ui.StartSpinner by one of its callers*)
(*   - "prcreate": cmd.runPRCreate, with the answers of git, gh, the AI    *)
(*     client and the user as nondeterministic choices                     *)
(*   - "diff": git.ParseDiffSummary reading one diff line by line          *)
(*   - "review": ui.reviewModel with its streaming goroutine               *)
(*   - "template": github.FindPullRequestTemplate                          *)
(*   - "findpr": github.FindPullRequest, run twice on the same input       *)
(*   - "pushstatus": git.GetPushStatus                                     *)
(*   - "vertex": llm.NewVertexAIClient and the process environment         *)
(* Both are bubbletea models.  The bubbletea program is modelled as the    *)
(* environment: it calls Init once, then delivers messages (key presses,   *)
(* results of commands, spinner ticks, window sizes) to Update one at a    *)
(* time, and leaves the event loop when the QuitMsg produced by a tea.Quit *)
(* command is received.  A command returned by Update runs in its own      *)
(* goroutine, so its message is delivered at any later moment, and other   *)
(* messages may be delivered between a tea.Quit and its QuitMsg.           *)
(*                                                                         *)
(* Strings are sequences of one-character strings.  What is only drawn     *)
(* (spinner frame, viewport scroll offset, cursor blink) is not part of    *)
(* the state.                                                              *)
(***************************************************************************)
EXTENDS Integers, Sequences, FiniteSets, TLC

\* longest text the user types into the text input
MaxLen == 2

\* most frames the spinner goroutine writes in one run
MaxTicks == 2

\* most lines of a diff given to ParseDiffSummary
MaxDiffLines == 3

\* most chunks ReviewCodeStreaming passes to its callback
MaxChunks == 2

\* most entries of a directory that holds pull request templates
MaxEntries == 2

\* most head owners given to FindPullRequest
MaxOwners == 2

\* capacity of reviewModel.sub
SubCap == 100

\* chunks of a review (never empty)
ChunkTexts == {"a", "b"}

Nil == "nil"

\* non-nil error values
Errs == {"failed"}

MaybeErr == Errs \cup {Nil}

----------------------------------------------------------------------------
(* Inputs *)

\* keys by msg.String()
Keys ==
  {"y", "Y", "e", "E", "n", "N", "q", "ctrl+c", "enter", "esc", "backspace", " ", "x"}

\* keys pressed while the text input is shown
EditKeys ==
  {"enter", "esc", "backspace", " ", "q", "ctrl+c"}

\* keys that carry a rune
RuneKeys ==
  {"y", "Y", "e", "E", "n", "N", "q", " ", "x"}

\* texts returned by GenerateCommitMessage with a nil error (never empty)
GenTexts ==
  { <<"x">>, <<" ", "x">>, <<"x", "\n", "q">>, <<"x", " ">>, <<" ">> }

\* contents returned by GeneratePullRequestContent with a nil error
PRContents ==
  {"content1", "content2"}

\* the programs
Flows == {"commit", "pr", "spinner", "prcreate", "diff", "review", "template", "findpr", "pushstatus", "vertex"}

\* an environment variable: unset, or set to a value (which may be empty)
Unset == [set |-> FALSE, val |-> ""]

Set(v) == [set |-> TRUE, val |-> v]

EnvValues == {Unset, Set(""), Set("/a"), Set("/b")}

\* os.Getenv: an unset variable reads as the empty string
Getenv(env, name) == env[name].val

\* the remote name "origin"
Origin == <<"o", "r", "i", "g", "i", "n">>

\* what git rev-parse --abbrev-ref --symbolic-full-name @{u} prints
UpstreamOutputs ==
  { <<"u", "p", "/", "f", "\n">>, <<"/", "f", "\n">>, <<"u", "p">>, <<" ", "\n">>, <<>> }

\* the runs of FindPullRequest that are compared
Runs == {1, 2}

\* owners as runPRCreate passes them, and logins as gh prints them
OwnerTexts == { <<"a">>, <<"A", " ">>, <<"b">>, <<" ">> }

\* the pull requests a repository can have for the head branch
PRItems ==
  { [Number |-> 7, login |-> <<"a">>], [Number |-> 12, login |-> <<"b">>],
    [Number |-> 3, login |-> <<"A", " ">>] }

\* head branches
BranchTexts == { <<" ">>, <<"f">> }

\* lines of a diff: headers of two files, the old-side line of a file, an
\* added, a deleted and a context line, and an empty line
DiffLineTexts ==
  { <<"+", "+", "+", " ", "b", "/", "x">>, <<"+", "+", "+", " ", "b", "/", "y">>,
    <<"-", "-", "-", " ", "a", "/", "x">>,
    <<"+", "a">>, <<"-", "a">>, <<" ", "a">>, <<>> }

\* the diffs given to ParseDiffSummary, as sequences of lines
Diffs == UNION { [1..n -> DiffLineTexts] : n \in 0..MaxDiffLines }

\* pull requests FindPullRequest may find
ExistingPRs == {"#7", "#12"}

\* outputs of git log and git diff before strings.TrimSpace
GitOutputs == { <<>>, <<"\n">>, <<"c", "\n">> }

\* no template: the nil *PullRequestTemplate
NoTemplate == [found |-> FALSE, source |-> "", path |-> "", name |-> <<>>]

\* FindPullRequestTemplate has not returned
NoTplRet == [returned |-> FALSE, template |-> NoTemplate, err |-> Nil]

\* reviewModel.Run has not returned
NoRvRet == [returned |-> FALSE, review |-> <<>>, err |-> Nil]

\* prTUI.Run has not returned
NoTuiRet == [returned |-> FALSE, content |-> Nil, confirmed |-> FALSE, err |-> Nil]

\* ensureBranchPushed has not returned
NoEbpRet == [returned |-> FALSE, continue |-> FALSE, err |-> Nil]

\* the functions that run a command under a spinner
SpCallers == {"ensureBranchPushed", "runCommandWithSpinner", "runCommandWithSpinnerCapture"}

\* terminal widths and heights of a tea.WindowSizeMsg
Widths == {0, 80}

Heights == {0, 24}

----------------------------------------------------------------------------
(* strings.TrimSpace *)

WhiteSpace == {" ", "\n", "\t"}

RECURSIVE TrimLeft(_)
TrimLeft(s) ==
  IF s = <<>> THEN <<>>
  ELSE IF Head(s) \in WhiteSpace THEN TrimLeft(Tail(s))
  ELSE s

RECURSIVE TrimRight(_)
TrimRight(s) ==
  IF s = <<>> THEN <<>>
  ELSE IF s[Len(s)] \in WhiteSpace THEN TrimRight(SubSeq(s, 1, Len(s) - 1))
  ELSE s

TrimSpace(s) == TrimRight(TrimLeft(s))

\* textinput's sanitizer: tabs and newlines become spaces
Sanitize(s) ==
  [i \in 1..Len(s) |-> IF s[i] \in {"\n", "\t"} THEN " " ELSE s[i]]

----------------------------------------------------------------------------
VARIABLES
  flow,             \* which program runs: "commit" or "pr"
  phase,            \* tea.Program: "new", "running", "exited"
  quitCmd,          \* a tea.Quit command was returned, its QuitMsg is in flight
  tickCmd,          \* a spinner tick command is in flight
  genCmd,           \* the generation command is in flight
  genIssued,        \* number of generation commands issued
  ev,               \* the last message handled by Update
  ret,              \* what Run returned
  cancelled,        \* history: a cancel key was taken while loading
  \* type model
  state, commitMessage, originalMessage, err,
  tiValue, tiPos, tiFocus,          \* textInput: value, cursor, focus
  commitCmd,        \* commitChanges command: "none", "issued", "returned"
  commitErr,        \* result of git.CommitChanges
  commitIssued,     \* number of commitChanges commands issued
  committed,        \* messages committed by git.CommitChanges
  editDraft,        \* history: commitMessage when the edit key was last pressed
  \* type prModel
  prState, content, renderedBody, confirmed, prErr,
  viewWidth, viewHeight, viewReady, render,
  \* startSpinner and its caller
  spCaller,         \* the function that starts the spinner
  spTerm,           \* isTerminalWriter(out)
  spPc,             \* position of the caller (in startSpinner, stop or its own body)
  spDone,           \* the done channel is closed
  spWg,             \* counter of the sync.WaitGroup
  spG,              \* the goroutine: "none", "loop", "writing", "exited"
  spTicks,          \* frames written by the goroutine
  spMainW,          \* what the caller's task is writing to out: "", "first", "clear", "flush"
  spStops,          \* invocations of the stop function
  spStopRet,        \* the stop function has returned
  spCmdErr,         \* result of cmd.Run()
  spErrBuf,         \* the command wrote to its captured stderr
  \* runPRCreate and ensureBranchPushed
  prDryRun, prYes, prUpdate,        \* the flags --dry-run, --yes, --update
  runPc,            \* the call runPRCreate is about to make, or "returned"
  runErr,           \* the error runPRCreate returned
  existingPR,       \* result of FindPullRequest: "unknown", "nil" or a pull request
  updateExisting,
  runSeen,          \* which of "commitLog", "diff" have been read
  runLog, runDiff,  \* commitLog and diff
  headPushed,       \* status.HeadPushed as ensureBranchPushed read it, or "unknown"
  runPrompts,       \* push prompts shown
  runAnswer,        \* the user's answer to the push prompt, or "none"
  runPushes,        \* git push commands run
  ebpRet,           \* what ensureBranchPushed returned
  runGen,           \* AI generation requests made
  runTui,           \* PR confirmations shown
  tuiRet,           \* what prTUI.Run returned
  runGh,            \* gh pr commands run
  runPrinted,       \* the generated title and body were printed
  runReported,      \* "Pull request already exists" was reported
  prContent,        \* the generated content runPRCreate holds
  \* ParseDiffSummary
  diffInput,        \* the lines of the diff
  diffPos,          \* the line read next
  diffFiles,        \* summary.Files
  diffCur,          \* position in diffFiles of the current file, 0 outside any section
  diffPc,           \* "parse" or "returned"
  \* reviewModel
  rvPhase,          \* "new", "running" or "exited" ("none" in the other flows)
  rvState,          \* m.state
  rvReview,         \* m.review, as the sequence of the chunks appended
  rvErr,            \* m.err
  rvQuitCmd, rvTickCmd, rvGenCmd, rvWaitCmd,   \* commands not yet run
  rvInbox,          \* the message of waitForActivity not yet delivered
  rvSub,            \* contents of the channel m.sub
  rvClosed,         \* m.sub is closed
  rvG,              \* the streaming goroutine
  rvSent,           \* chunks the callback has sent
  rvStreamErr,      \* what ReviewCodeStreaming returned, "pending" before
  rvRet,            \* what Run returned
  \* FindPullRequestTemplate
  tplToken, tplOwner,   \* the arguments token and owner
  tplPc,            \* the loop that runs: "localFiles", "localDirs", "orgFiles", "orgDirs"
  tplIdx,           \* position of the loop in its candidate list
  tplChecked,       \* the candidates examined so far, as <<loop, position>>
  tplPassedOver,    \* a directory that holds a template was skipped
  tplReadErr,       \* os.ReadFile failed on a local template
  tplNet,           \* a request was sent to api.github.com
  tplListing,       \* the listing of the directory the template was taken from
  tplRet,           \* what FindPullRequestTemplate returned
  \* FindPullRequest
  fpHeadOwners,     \* the argument headOwners
  fpBranch,         \* the argument headBranch
  fpRepo,           \* the pull requests of the repository
  fpPc,             \* per run: "start", "owners" or "returned"
  fpOwners,         \* per run: the keys of the map owners
  fpTried,          \* per run: the owners the loop has taken
  fpRet,            \* per run: what FindPullRequest returned
  \* GetPushStatus
  psBranch,         \* the argument branch
  psPc,             \* the git command run next, or "returned"
  psStatus,         \* the PushStatus being built
  psErr,            \* the error returned
  psAncestor,       \* what git merge-base --is-ancestor said: "yes", "no", "error", "unknown"
  psExists,         \* what git show-ref said of the remote branch
  \* NewVertexAIClient
  vxEnv,            \* the process environment: GELF_CREDENTIALS, GOOGLE_APPLICATION_CREDENTIALS
  vxEnv0,           \* the environment at the call
  vxPc,             \* "start", "newClient", "return", "returned"
  vxOriginal,       \* the local originalCreds
  vxDeferred,       \* the restoring function was deferred
  vxSeen,           \* the credentials variable genai.NewClient read, or "none" before it ran
  vxErr             \* the error returned

mVars == <<state, commitMessage, originalMessage, err, tiValue, tiPos, tiFocus>>

commitVars == <<commitCmd, commitErr, commitIssued, committed, editDraft>>

prVars ==
  <<prState, content, renderedBody, confirmed, prErr, viewWidth, viewHeight,
    viewReady, render>>

progVars == <<flow, phase, quitCmd, tickCmd, genCmd, genIssued, ev, ret, cancelled>>

spVars ==
  <<spCaller, spTerm, spPc, spDone, spWg, spG, spTicks, spMainW, spStops, spStopRet,
    spCmdErr, spErrBuf>>

runFlags == <<prDryRun, prYes, prUpdate>>

runCtl == <<runPc, runErr>>

runEnv == <<existingPR, updateExisting, runSeen, runLog, runDiff>>

runEbp == <<headPushed, runPrompts, runAnswer, runPushes, ebpRet>>

runOut == <<runGen, runTui, tuiRet, runGh, runPrinted, runReported, prContent>>

runVars == <<runFlags, runCtl, runEnv, runEbp, runOut>>

diffVars == <<diffInput, diffPos, diffFiles, diffCur, diffPc>>

rvVars == <<rvPhase, rvState, rvReview, rvErr, rvQuitCmd, rvTickCmd, rvGenCmd, rvWaitCmd,
            rvInbox, rvSub, rvClosed, rvG, rvSent, rvStreamErr, rvRet>>

tplVars == <<tplToken, tplOwner, tplPc, tplIdx, tplChecked, tplPassedOver, tplReadErr,
             tplNet, tplListing, tplRet>>

vxVars == <<vxEnv, vxEnv0, vxPc, vxOriginal, vxDeferred, vxSeen, vxErr>>

psVars == <<psBranch, psPc, psStatus, psErr, psAncestor, psExists>>

fpVars == <<fpHeadOwners, fpBranch, fpRepo, fpPc, fpOwners, fpTried, fpRet>>

\* the variables of the review model and of the functions modelled on their own
yVars == <<rvVars, tplVars, fpVars, psVars, vxVars>>

\* the variables of the programs that are not the commit and PR TUIs
xVars == <<spVars, runVars, diffVars, yVars>>

\* the variables of the TUIs
uiVars == <<progVars, mVars, commitVars, prVars>>

vars == <<progVars, mVars, commitVars, prVars, xVars>>

\* the variables of the commit and PR TUIs, the spinner, runPRCreate and the parser
oldVars == <<uiVars, spVars, runVars, diffVars>>

NoEv == [kind |-> "none", key |-> "", err |-> Nil, message |-> <<>>, content |-> Nil]

NoRet == [returned |-> FALSE, content |-> Nil, confirmed |-> FALSE, err |-> Nil, printed |-> FALSE]

\* NewTUI / NewPRTUI
Init ==
  /\ flow \in Flows
  /\ phase = IF flow \in {"commit", "pr"} THEN "new" ELSE "none"
  /\ quitCmd = FALSE
  /\ tickCmd = FALSE
  /\ genCmd = FALSE
  /\ genIssued = 0
  /\ ev = NoEv
  /\ ret = NoRet
  /\ cancelled = FALSE
  /\ state = "stateLoading"
  /\ commitMessage = <<>>
  /\ originalMessage = <<>>
  /\ err = Nil
  /\ tiValue = <<>>
  /\ tiPos = 0
  /\ tiFocus = FALSE
  /\ commitCmd = "none"
  /\ commitErr = Nil
  /\ commitIssued = 0
  /\ committed = <<>>
  /\ editDraft = <<>>
  /\ prState = "prStateLoading"
  /\ content = Nil
  /\ renderedBody = ""
  /\ confirmed = FALSE
  /\ prErr = Nil
  /\ viewWidth = 0
  /\ viewHeight = 0
  /\ viewReady = FALSE
  /\ render \in IF flow = "pr" THEN BOOLEAN ELSE {FALSE}
  /\ spCaller \in IF flow = "spinner" THEN SpCallers ELSE {"none"}
  /\ spTerm \in IF flow = "spinner" THEN BOOLEAN ELSE {FALSE}
  /\ spPc = "call"
  /\ spDone = FALSE
  /\ spWg = 0
  /\ spG = "none"
  /\ spTicks = 0
  /\ spMainW = ""
  /\ spStops = 0
  /\ spStopRet = FALSE
  /\ spCmdErr = Nil
  /\ spErrBuf = FALSE
  /\ prDryRun \in IF flow = "prcreate" THEN BOOLEAN ELSE {FALSE}
  /\ prYes \in IF flow = "prcreate" THEN BOOLEAN ELSE {FALSE}
  /\ prUpdate \in IF flow = "prcreate" THEN BOOLEAN ELSE {FALSE}
  /\ runPc = "config"
  /\ runErr = Nil
  /\ existingPR = "unknown"
  /\ updateExisting = FALSE
  /\ runSeen = {}
  /\ runLog = <<>>
  /\ runDiff = <<>>
  /\ headPushed = "unknown"
  /\ runPrompts = 0
  /\ runAnswer = "none"
  /\ runPushes = 0
  /\ ebpRet = NoEbpRet
  /\ runGen = 0
  /\ runTui = 0
  /\ tuiRet = NoTuiRet
  /\ runGh = <<>>
  /\ runPrinted = FALSE
  /\ runReported = FALSE
  /\ prContent = Nil
  /\ diffInput \in IF flow = "diff" THEN Diffs ELSE {<<>>}
  /\ diffPos = 1
  /\ diffFiles = <<>>
  /\ diffCur = 0
  /\ diffPc = "parse"
  /\ rvPhase = IF flow = "review" THEN "new" ELSE "none"
  /\ rvState = "reviewStateLoading"
  /\ rvReview = <<>>
  /\ rvErr = Nil
  /\ rvQuitCmd = FALSE
  /\ rvTickCmd = FALSE
  /\ rvGenCmd = FALSE
  /\ rvWaitCmd = FALSE
  /\ rvInbox = [kind |-> "none", chunk |-> "", err |-> Nil]
  /\ rvSub = <<>>
  /\ rvClosed = FALSE
  /\ rvG = "none"
  /\ rvSent = 0
  /\ rvStreamErr = "pending"
  /\ rvRet = NoRvRet
  /\ tplToken \in IF flow = "template" THEN {"", "token"} ELSE {""}
  /\ tplOwner \in IF flow = "template" THEN {"", "owner"} ELSE {""}
  /\ tplPc = "localFiles"
  /\ tplIdx = 1
  /\ tplChecked = {}
  /\ tplPassedOver = FALSE
  /\ tplReadErr = FALSE
  /\ tplNet = FALSE
  /\ tplListing = {}
  /\ tplRet = NoTplRet
  /\ fpHeadOwners \in IF flow = "findpr"
                        THEN UNION { [1..n -> OwnerTexts] : n \in 0..MaxOwners }
                        ELSE {<<>>}
  /\ fpBranch \in IF flow = "findpr" THEN BranchTexts ELSE {<<>>}
  /\ fpRepo \in IF flow = "findpr" THEN SUBSET PRItems ELSE {{}}
  /\ psBranch \in IF flow = "pushstatus" THEN {<<"f">>, <<"g", "/", "h">>} ELSE {<<>>}
  /\ psPc = "upstream"
  /\ vxEnv \in IF flow = "vertex"
                THEN [{"GELF_CREDENTIALS", "GOOGLE_APPLICATION_CREDENTIALS"} -> EnvValues]
                ELSE {[n \in {"GELF_CREDENTIALS", "GOOGLE_APPLICATION_CREDENTIALS"} |-> Unset]}
  /\ vxEnv0 = vxEnv
  /\ vxPc = "start"
  /\ vxOriginal = ""
  /\ vxDeferred = FALSE
  /\ vxSeen = "none"
  /\ vxErr = Nil
  /\ psStatus = [HasUpstream |-> FALSE, UpstreamRef |-> <<>>, RemoteName |-> <<>>,
                 RemoteRef |-> <<>>, HeadPushed |-> FALSE]
  /\ psErr = Nil
  /\ psAncestor = "unknown"
  /\ psExists = "unknown"
  /\ fpPc = [r \in Runs |-> "start"]
  /\ fpOwners = [r \in Runs |-> {}]
  /\ fpTried = [r \in Runs |-> {}]
  /\ fpRet = [r \in Runs |-> [returned |-> FALSE, pr |-> [found |-> FALSE, Number |-> 0],
                               err |-> Nil]]

----------------------------------------------------------------------------
(* textinput.Model as used by the commit model *)

\* textInput.SetValue(s): the new cursor
SetValueCursor(s) ==
  IF (tiPos = 0 /\ tiValue = <<>>) \/ tiPos > Len(s) THEN Len(s) ELSE tiPos

\* textInput.Update(KeyMsg k): value and cursor after the key
TextInputValue(k) ==
  IF ~tiFocus THEN tiValue
  ELSE IF k = "backspace"
    THEN IF tiPos > 0
           THEN SubSeq(tiValue, 1, tiPos - 1) \o SubSeq(tiValue, tiPos + 1, Len(tiValue))
           ELSE tiValue
  ELSE IF k \in RuneKeys
    THEN SubSeq(tiValue, 1, tiPos) \o <<k>> \o SubSeq(tiValue, tiPos + 1, Len(tiValue))
  ELSE tiValue

TextInputCursor(k) ==
  IF ~tiFocus THEN tiPos
  ELSE IF k = "backspace" THEN (IF tiPos > 0 THEN tiPos - 1 ELSE tiPos)
  ELSE IF k \in RuneKeys THEN tiPos + 1
  ELSE tiPos

----------------------------------------------------------------------------
(* model.Update, one definition per branch.  Each says what the handler   *)
(* does to the model and which commands it returns.                        *)

cmdVars == <<quitCmd, tickCmd, commitIssued>>

\* case tea.KeyMsg, case stateLoading; other keys fall to the spinner update
KeyLoading(k) ==
  /\ quitCmd' = (quitCmd \/ k \in {"q", "ctrl+c"})
  /\ UNCHANGED <<mVars, tickCmd, commitIssued>>

\* KeyConfirm reporting success at once: the commit command is returned but
\* the state does not wait for it
KeyConfirm_Direct(k) ==
  IF k \in {"y", "Y"} THEN
    /\ state' = "stateSuccess"
    /\ tickCmd' = TRUE
    /\ commitIssued' = commitIssued + 1
    /\ UNCHANGED <<commitMessage, originalMessage, err, tiValue, tiPos, tiFocus, quitCmd>>
  ELSE IF k \in {"e", "E"} THEN
    /\ originalMessage' = commitMessage
    /\ tiValue' = Sanitize(commitMessage)
    /\ tiPos' = SetValueCursor(Sanitize(commitMessage))
    /\ tiFocus' = TRUE
    /\ state' = "stateEditing"
    /\ UNCHANGED <<commitMessage, err, cmdVars>>
  ELSE IF k \in {"n", "N", "q", "ctrl+c"} THEN
    /\ quitCmd' = TRUE
    /\ UNCHANGED <<mVars, tickCmd, commitIssued>>
  ELSE
    UNCHANGED <<mVars, cmdVars>>

\* case tea.KeyMsg, case stateConfirm
KeyConfirm(k) ==
  IF k \in {"y", "Y"} THEN
    /\ state' = "stateCommitting"
    /\ tickCmd' = TRUE
    /\ commitIssued' = commitIssued + 1
    /\ UNCHANGED <<commitMessage, originalMessage, err, tiValue, tiPos, tiFocus, quitCmd>>
  ELSE IF k \in {"e", "E"} THEN
    /\ originalMessage' = commitMessage
    /\ tiValue' = Sanitize(commitMessage)
    /\ tiPos' = SetValueCursor(Sanitize(commitMessage))
    /\ tiFocus' = TRUE
    /\ state' = "stateEditing"
    /\ UNCHANGED <<commitMessage, err, cmdVars>>
  ELSE IF k \in {"n", "N", "q", "ctrl+c"} THEN
    /\ quitCmd' = TRUE
    /\ UNCHANGED <<mVars, tickCmd, commitIssued>>
  ELSE
    UNCHANGED <<mVars, cmdVars>>

\* KeyEditing whose esc keeps the edited text
KeyEditing_EscKeeps(k) ==
  IF k \in {"enter", "esc"} THEN
    /\ commitMessage' =
         IF TrimSpace(tiValue) = <<>> THEN originalMessage ELSE TrimSpace(tiValue)
    /\ tiFocus' = FALSE
    /\ state' = "stateConfirm"
    /\ UNCHANGED <<originalMessage, err, tiValue, tiPos, cmdVars>>
  ELSE
    /\ tiValue' = TextInputValue(k)
    /\ tiPos' = TextInputCursor(k)
    /\ UNCHANGED <<state, commitMessage, originalMessage, err, tiFocus, cmdVars>>

\* KeyEditing whose enter accepts an empty message
KeyEditing_NoFallback(k) ==
  IF k = "enter" THEN
    /\ commitMessage' = TrimSpace(tiValue)
    /\ tiFocus' = FALSE
    /\ state' = "stateConfirm"
    /\ UNCHANGED <<originalMessage, err, tiValue, tiPos, cmdVars>>
  ELSE IF k = "esc" THEN
    /\ commitMessage' = originalMessage
    /\ tiFocus' = FALSE
    /\ state' = "stateConfirm"
    /\ UNCHANGED <<originalMessage, err, tiValue, tiPos, cmdVars>>
  ELSE
    /\ tiValue' = TextInputValue(k)
    /\ tiPos' = TextInputCursor(k)
    /\ UNCHANGED <<state, commitMessage, originalMessage, err, tiFocus, cmdVars>>

\* case tea.KeyMsg, case stateEditing
KeyEditing(k) ==
  IF k = "enter" THEN
    /\ commitMessage' =
         IF TrimSpace(tiValue) = <<>> THEN originalMessage ELSE TrimSpace(tiValue)
    /\ tiFocus' = FALSE
    /\ state' = "stateConfirm"
    /\ UNCHANGED <<originalMessage, err, tiValue, tiPos, cmdVars>>
  ELSE IF k = "esc" THEN
    /\ commitMessage' = originalMessage
    /\ tiFocus' = FALSE
    /\ state' = "stateConfirm"
    /\ UNCHANGED <<originalMessage, err, tiValue, tiPos, cmdVars>>
  ELSE
    /\ tiValue' = TextInputValue(k)
    /\ tiPos' = TextInputCursor(k)
    /\ UNCHANGED <<state, commitMessage, originalMessage, err, tiFocus, cmdVars>>

\* KeyTerminal with a retry: a key in stateError goes back to stateConfirm
KeyTerminal_Retry(k) ==
  IF state = "stateError" THEN
    /\ state' = "stateConfirm"
    /\ UNCHANGED <<commitMessage, originalMessage, err, tiValue, tiPos, tiFocus, cmdVars>>
  ELSE
    /\ quitCmd' = TRUE
    /\ UNCHANGED <<mVars, tickCmd, commitIssued>>

\* case tea.KeyMsg, case stateSuccess, stateError
KeyTerminal(k) ==
  /\ quitCmd' = TRUE
  /\ UNCHANGED <<mVars, tickCmd, commitIssued>>

\* KeyCommitting that lets the cancel keys quit
KeyCommitting_Quit(k) ==
  /\ quitCmd' = (quitCmd \/ k \in {"q", "ctrl+c"})
  /\ UNCHANGED <<mVars, tickCmd, commitIssued>>

\* KeyCommitting that takes the approve key again
KeyCommitting_Again(k) ==
  IF k \in {"y", "Y"} THEN
    /\ tickCmd' = TRUE
    /\ commitIssued' = commitIssued + 1
    /\ UNCHANGED <<mVars, quitCmd>>
  ELSE
    UNCHANGED <<mVars, cmdVars>>

\* case tea.KeyMsg in stateCommitting: no case, the spinner ignores keys
KeyCommitting(k) ==
  UNCHANGED <<mVars, cmdVars>>

\* OnCommitGenerated that shows the (empty) message of a failed generation
OnCommitGenerated_IgnoreErr(message, e) ==
  /\ commitMessage' = message
  /\ state' = "stateConfirm"
  /\ UNCHANGED <<err, originalMessage, tiValue, tiPos, tiFocus, cmdVars>>

\* case msgCommitGenerated
OnCommitGenerated(message, e) ==
  /\ IF e # Nil
       THEN /\ err' = e
            /\ state' = "stateError"
            /\ UNCHANGED commitMessage
       ELSE /\ commitMessage' = message
            /\ state' = "stateConfirm"
            /\ UNCHANGED err
  /\ UNCHANGED <<originalMessage, tiValue, tiPos, tiFocus, cmdVars>>

\* OnCommitDone that quits only after a successful commit
OnCommitDone_StayOnError(e) ==
  /\ IF e # Nil
       THEN /\ err' = e
            /\ state' = "stateError"
            /\ UNCHANGED quitCmd
       ELSE /\ state' = "stateSuccess"
            /\ quitCmd' = TRUE
            /\ UNCHANGED err
  /\ UNCHANGED <<commitMessage, originalMessage, tiValue, tiPos, tiFocus,
                 tickCmd, commitIssued>>

\* case msgCommitDone
OnCommitDone(e) ==
  /\ IF e # Nil
       THEN /\ err' = e
            /\ state' = "stateError"
       ELSE /\ state' = "stateSuccess"
            /\ UNCHANGED err
  /\ quitCmd' = TRUE
  /\ UNCHANGED <<commitMessage, originalMessage, tiValue, tiPos, tiFocus,
                 tickCmd, commitIssued>>

\* a spinner.TickMsg: no case of the type switch; the spinner is updated
\* (and ticks again) only while loading or committing
OnTick ==
  /\ tickCmd' = (state \in {"stateLoading", "stateCommitting"})
  /\ UNCHANGED <<mVars, quitCmd, commitIssued>>

\* the tea.KeyMsg case of model.Update
UpdateKey(k) ==
  CASE state = "stateLoading" -> KeyLoading(k)
    [] state = "stateConfirm" -> KeyConfirm(k)
    [] state = "stateEditing" -> KeyEditing(k)
    [] state = "stateCommitting" -> KeyCommitting(k)
    [] state \in {"stateSuccess", "stateError"} -> KeyTerminal(k)

----------------------------------------------------------------------------
(* prModel.Update, one definition per branch *)

prFields == <<prState, content, renderedBody, confirmed, prErr, viewWidth, viewHeight, viewReady>>

\* PRKeyLoading that already takes the approve key
PRKeyLoading_Approve(k) ==
  IF k \in {"q", "ctrl+c"} THEN
    /\ prState' = "prStateDone"
    /\ quitCmd' = TRUE
    /\ UNCHANGED <<content, renderedBody, confirmed, prErr, viewWidth, viewHeight,
                   viewReady, tickCmd>>
  ELSE IF k \in {"y", "Y"} THEN
    /\ confirmed' = TRUE
    /\ prState' = "prStateDone"
    /\ quitCmd' = TRUE
    /\ UNCHANGED <<content, renderedBody, prErr, viewWidth, viewHeight, viewReady, tickCmd>>
  ELSE
    UNCHANGED <<prFields, quitCmd, tickCmd>>

\* case tea.KeyMsg, case prStateLoading; other keys fall to the spinner update
PRKeyLoading(k) ==
  IF k \in {"q", "ctrl+c"} THEN
    /\ prState' = "prStateDone"
    /\ quitCmd' = TRUE
    /\ UNCHANGED <<content, renderedBody, confirmed, prErr, viewWidth, viewHeight,
                   viewReady, tickCmd>>
  ELSE
    UNCHANGED <<prFields, quitCmd, tickCmd>>

\* PRKeyConfirm with an edit key
PRKeyConfirm_Edit(k) ==
  IF k \in {"y", "Y"} THEN
    /\ confirmed' = TRUE
    /\ prState' = "prStateDone"
    /\ quitCmd' = TRUE
    /\ UNCHANGED <<content, renderedBody, prErr, viewWidth, viewHeight, viewReady, tickCmd>>
  ELSE IF k \in {"e", "E"} THEN
    /\ prState' = "prStateEditing"
    /\ UNCHANGED <<confirmed, content, renderedBody, prErr, viewWidth, viewHeight, viewReady,
                   quitCmd, tickCmd>>
  ELSE IF k \in {"n", "N", "q", "ctrl+c"} THEN
    /\ confirmed' = FALSE
    /\ prState' = "prStateDone"
    /\ quitCmd' = TRUE
    /\ UNCHANGED <<content, renderedBody, prErr, viewWidth, viewHeight, viewReady, tickCmd>>
  ELSE
    UNCHANGED <<prFields, quitCmd, tickCmd>>

\* case tea.KeyMsg, case prStateConfirm; other keys go to the viewport
PRKeyConfirm(k) ==
  IF k \in {"y", "Y"} THEN
    /\ confirmed' = TRUE
    /\ prState' = "prStateDone"
    /\ quitCmd' = TRUE
    /\ UNCHANGED <<content, renderedBody, prErr, viewWidth, viewHeight, viewReady, tickCmd>>
  ELSE IF k \in {"n", "N", "q", "ctrl+c"} THEN
    /\ confirmed' = FALSE
    /\ prState' = "prStateDone"
    /\ quitCmd' = TRUE
    /\ UNCHANGED <<content, renderedBody, prErr, viewWidth, viewHeight, viewReady, tickCmd>>
  ELSE
    UNCHANGED <<prFields, quitCmd, tickCmd>>

\* case tea.KeyMsg, case prStateDone, prStateError
PRKeyTerminal(k) ==
  /\ quitCmd' = TRUE
  /\ UNCHANGED <<prFields, tickCmd>>

\* the tea.KeyMsg case of prModel.Update
PRUpdateKey(k) ==
  CASE prState = "prStateLoading" -> PRKeyLoading(k)
    [] prState = "prStateConfirm" -> PRKeyConfirm(k)
    [] prState \in {"prStateDone", "prStateError"} -> PRKeyTerminal(k)

\* PROnGenerated that asks for confirmation after a failed generation
PROnGenerated_ErrConfirm(c, rb, e) ==
  /\ IF e # Nil
       THEN /\ prErr' = e
            /\ prState' = "prStateConfirm"
            /\ UNCHANGED <<content, renderedBody>>
       ELSE /\ content' = c
            /\ renderedBody' = rb
            /\ prState' = "prStateConfirm"
            /\ UNCHANGED prErr
  /\ UNCHANGED <<confirmed, viewWidth, viewHeight, viewReady, quitCmd, tickCmd>>

\* case msgPRGenerated
PROnGenerated(c, rb, e) ==
  /\ IF e # Nil
       THEN /\ prErr' = e
            /\ prState' = "prStateError"
            /\ UNCHANGED <<content, renderedBody>>
       ELSE /\ content' = c
            /\ renderedBody' = rb
            /\ prState' = "prStateConfirm"
            /\ UNCHANGED prErr
  /\ UNCHANGED <<confirmed, viewWidth, viewHeight, viewReady, quitCmd, tickCmd>>

\* case tea.WindowSizeMsg, with updateViewportSize
PROnWindowSize(w, h) ==
  /\ viewWidth' = w
  /\ viewHeight' = h
  /\ viewReady' = (viewReady \/ (w > 0 /\ h > 0))
  /\ UNCHANGED <<prState, content, renderedBody, confirmed, prErr, quitCmd, tickCmd>>

\* case tea.MouseMsg: scrolls the viewport at most
PROnMouse ==
  UNCHANGED <<prFields, quitCmd, tickCmd>>

\* a spinner.TickMsg: the spinner is updated (and ticks again) only while loading
PROnTick ==
  /\ tickCmd' = (prState = "prStateLoading")
  /\ UNCHANGED <<prFields, quitCmd>>

----------------------------------------------------------------------------
(* The programs: tea.NewProgram(m).Run() and the commands' goroutines *)

Ev(kind, key, e, message, c) ==
  [kind |-> kind, key |-> key, err |-> e, message |-> message, content |-> c]

\* p.Run() calls Init: the spinner tick and the generation command are batched
ProgramInit ==
  /\ phase = "new"
  /\ phase' = "running"
  /\ tickCmd' = TRUE
  /\ genCmd' = TRUE
  /\ genIssued' = genIssued + 1
  /\ ev' = Ev("init", "", Nil, <<>>, Nil)
  /\ UNCHANGED <<flow, quitCmd, ret, cancelled, mVars, commitVars, prVars, xVars>>

\* the commitChanges command follows the commands Update returned
CommitCmdAfter ==
  commitCmd' = IF commitIssued' # commitIssued THEN "issued" ELSE commitCmd

\* a key press reaches model.Update
KeyPress ==
  /\ flow = "commit"
  /\ phase = "running"
  /\ \E k \in IF state = "stateEditing" THEN EditKeys ELSE Keys :
       /\ (state = "stateEditing" /\ k \in RuneKeys) => Len(tiValue) < MaxLen
       /\ UpdateKey(k)
       /\ ev' = Ev("key", k, Nil, <<>>, Nil)
       /\ editDraft' = IF state = "stateConfirm" /\ k \in {"e", "E"}
                          THEN commitMessage ELSE editDraft
       /\ cancelled' = (cancelled \/ (state = "stateLoading" /\ k \in {"q", "ctrl+c"}))
  /\ CommitCmdAfter
  /\ UNCHANGED <<flow, phase, genCmd, genIssued, ret, commitErr, committed, prVars, xVars>>

\* generateCommitMessage's goroutine returns and its message reaches model.Update
DeliverCommitGenerated ==
  /\ flow = "commit"
  /\ phase = "running"
  /\ genCmd
  /\ genCmd' = FALSE
  /\ \E text \in GenTexts \cup {<<>>}, e \in MaybeErr :
       /\ (e = Nil) = (text # <<>>)
       /\ OnCommitGenerated(TrimSpace(text), e)
       /\ ev' = Ev("msgCommitGenerated", "", e, TrimSpace(text), Nil)
  /\ CommitCmdAfter
  /\ UNCHANGED <<flow, phase, genIssued, ret, cancelled, commitErr, committed, editDraft, prVars, xVars>>

\* commitChanges' goroutine runs git.CommitChanges(m.commitMessage)
RunCommit ==
  /\ flow = "commit"
  /\ commitCmd = "issued"
  /\ commitCmd' = "returned"
  /\ \E e \in MaybeErr :
       /\ commitErr' = e
       /\ committed' = IF e = Nil THEN Append(committed, commitMessage) ELSE committed
  /\ UNCHANGED <<progVars, mVars, commitIssued, editDraft, prVars, xVars>>

\* the msgCommitDone of commitChanges reaches model.Update
DeliverCommitDone ==
  /\ flow = "commit"
  /\ phase = "running"
  /\ commitCmd = "returned"
  /\ OnCommitDone(commitErr)
  /\ commitCmd' = IF commitIssued' # commitIssued THEN "issued" ELSE "none"
  /\ ev' = Ev("msgCommitDone", "", commitErr, <<>>, Nil)
  /\ UNCHANGED <<flow, phase, genCmd, genIssued, ret, cancelled, commitErr, committed, editDraft, prVars, xVars>>

\* a spinner tick reaches model.Update
Tick ==
  /\ flow = "commit"
  /\ phase = "running"
  /\ tickCmd
  /\ OnTick
  /\ CommitCmdAfter
  /\ ev' = Ev("tick", "", Nil, <<>>, Nil)
  /\ UNCHANGED <<flow, phase, genCmd, genIssued, ret, cancelled, commitErr, committed, editDraft, prVars, xVars>>

\* the QuitMsg ends the event loop and model.Run returns
ProgramQuit ==
  /\ flow = "commit"
  /\ phase = "running"
  /\ quitCmd
  /\ phase' = "exited"
  /\ ret' = [returned |-> TRUE, content |-> Nil, confirmed |-> FALSE, err |-> Nil,
             printed |-> (state = "stateSuccess")]
  /\ ev' = Ev("QuitMsg", "", Nil, <<>>, Nil)
  /\ UNCHANGED <<flow, quitCmd, tickCmd, genCmd, genIssued, cancelled, mVars, commitVars, prVars, xVars>>

\* a key press reaches prModel.Update
PRKeyPress ==
  /\ flow = "pr"
  /\ phase = "running"
  /\ \E k \in Keys :
       /\ PRUpdateKey(k)
       /\ ev' = Ev("key", k, Nil, <<>>, Nil)
       /\ cancelled' = (cancelled \/ (prState = "prStateLoading" /\ k \in {"q", "ctrl+c"}))
  /\ UNCHANGED <<flow, phase, genCmd, genIssued, ret, mVars, commitVars, render, xVars>>

\* generatePRContent's goroutine returns and its message reaches prModel.Update
DeliverPRGenerated ==
  /\ flow = "pr"
  /\ phase = "running"
  /\ genCmd
  /\ genCmd' = FALSE
  /\ \E c \in PRContents \cup {Nil}, rb \in {"", "rendered"}, e \in MaybeErr :
       /\ (e = Nil) = (c # Nil)
       /\ (~render \/ e # Nil) => rb = ""
       /\ PROnGenerated(c, rb, e)
       /\ ev' = Ev("msgPRGenerated", rb, e, <<>>, c)
  /\ UNCHANGED <<flow, phase, genIssued, ret, cancelled, mVars, commitVars, render, xVars>>

\* the terminal reports its size
PRWindowSize ==
  /\ flow = "pr"
  /\ phase = "running"
  /\ \E w \in Widths, h \in Heights : PROnWindowSize(w, h)
  /\ ev' = Ev("WindowSizeMsg", "", Nil, <<>>, Nil)
  /\ UNCHANGED <<flow, phase, genCmd, genIssued, ret, cancelled, mVars, commitVars, render, xVars>>

\* a mouse event reaches prModel.Update
PRMouse ==
  /\ flow = "pr"
  /\ phase = "running"
  /\ PROnMouse
  /\ ev' = Ev("MouseMsg", "", Nil, <<>>, Nil)
  /\ UNCHANGED <<flow, phase, genCmd, genIssued, ret, cancelled, mVars, commitVars, render, xVars>>

\* a spinner tick reaches prModel.Update
PRTick ==
  /\ flow = "pr"
  /\ phase = "running"
  /\ tickCmd
  /\ PROnTick
  /\ ev' = Ev("tick", "", Nil, <<>>, Nil)
  /\ UNCHANGED <<flow, phase, genCmd, genIssued, ret, cancelled, mVars, commitVars, render, xVars>>

\* what prModel.Run returns once p.Run() has returned a nil error
PRRunResult ==
  IF prErr # Nil
    THEN [returned |-> TRUE, content |-> Nil, confirmed |-> FALSE, err |-> prErr,
          printed |-> FALSE]
    ELSE [returned |-> TRUE, content |-> content, confirmed |-> confirmed, err |-> Nil,
          printed |-> FALSE]

\* the QuitMsg ends the event loop and prModel.Run returns
PRProgramQuit ==
  /\ flow = "pr"
  /\ phase = "running"
  /\ quitCmd
  /\ phase' = "exited"
  /\ ret' = PRRunResult
  /\ ev' = Ev("QuitMsg", "", Nil, <<>>, Nil)
  /\ UNCHANGED <<flow, quitCmd, tickCmd, genCmd, genIssued, cancelled, mVars, commitVars, prVars, xVars>>

----------------------------------------------------------------------------
(* ui.startSpinner, the stop function it returns, and its callers.  A write *)
(* to the writer takes two steps, so that two tasks writing at the same     *)
(* time is a state.                                                         *)

spRest == <<spCaller, spTerm, spCmdErr, spErrBuf>>

\* startSpinner up to wg.Add(1); a writer that is no terminal gets func() {}
SpStart_NoAdd ==
  /\ flow = "spinner"
  /\ spPc = "call"
  /\ spPc' = IF spTerm THEN "first" ELSE "run"
  /\ UNCHANGED <<spWg, spDone, spG, spTicks, spMainW, spStops, spStopRet, spRest, uiVars, runVars, diffVars, yVars>>

SpStart ==
  /\ flow = "spinner"
  /\ spPc = "call"
  /\ spPc' = IF spTerm THEN "first" ELSE "run"
  /\ spWg' = IF spTerm THEN 1 ELSE spWg
  /\ UNCHANGED <<spDone, spG, spTicks, spMainW, spStops, spStopRet, spRest, uiVars, runVars, diffVars, yVars>>

\* fmt.Fprintf(out, "\r%s %s", frames[0], styled) begins
SpFirstBegin ==
  /\ flow = "spinner"
  /\ spPc = "first"
  /\ spPc' = "firstw"
  /\ spMainW' = "first"
  /\ UNCHANGED <<spDone, spWg, spG, spTicks, spStops, spStopRet, spRest, uiVars, runVars, diffVars, yVars>>

\* the first frame is written
SpFirstEnd ==
  /\ flow = "spinner"
  /\ spPc = "firstw"
  /\ spPc' = "go"
  /\ spMainW' = ""
  /\ UNCHANGED <<spDone, spWg, spG, spTicks, spStops, spStopRet, spRest, uiVars, runVars, diffVars, yVars>>

\* go func() { ... }(); startSpinner returns the stop function
SpGo ==
  /\ flow = "spinner"
  /\ spPc = "go"
  /\ spPc' = "run"
  /\ spG' = "loop"
  /\ UNCHANGED <<spDone, spWg, spTicks, spMainW, spStops, spStopRet, spRest, uiVars, runVars, diffVars, yVars>>

\* goroutine: case <-ticker.C, the frame's Fprintf begins
SpTickBegin ==
  /\ flow = "spinner"
  /\ spG = "loop"
  /\ spTicks < MaxTicks
  /\ spG' = "writing"
  /\ UNCHANGED <<spPc, spDone, spWg, spTicks, spMainW, spStops, spStopRet, spRest, uiVars, runVars, diffVars, yVars>>

\* goroutine: the frame is written, back to the select
SpTickEnd ==
  /\ flow = "spinner"
  /\ spG = "writing"
  /\ spG' = "loop"
  /\ spTicks' = spTicks + 1
  /\ UNCHANGED <<spPc, spDone, spWg, spMainW, spStops, spStopRet, spRest, uiVars, runVars, diffVars, yVars>>

\* goroutine: case <-done, return; the deferred wg.Done() runs
SpGExit ==
  /\ flow = "spinner"
  /\ spG = "loop"
  /\ spDone
  /\ spG' = "exited"
  /\ spWg' = 0
  /\ UNCHANGED <<spPc, spDone, spTicks, spMainW, spStops, spStopRet, spRest, uiVars, runVars, diffVars, yVars>>

\* the caller's cmd.Run() returns; the command wrote to buffers only
SpCmdRun ==
  /\ flow = "spinner"
  /\ spPc = "run"
  /\ spPc' = "callstop"
  /\ spCmdErr' \in MaybeErr
  /\ spErrBuf' \in BOOLEAN
  /\ UNCHANGED <<spCaller, spTerm, spDone, spWg, spG, spTicks, spMainW, spStops, spStopRet,
                 uiVars, runVars, diffVars, yVars>>

\* the caller invokes the stop function, on the error path and on the other;
\* func() {} returns at once
SpStopCall ==
  /\ flow = "spinner"
  /\ spPc = "callstop"
  /\ spStops' = spStops + 1
  /\ spPc' = IF spTerm THEN "close" ELSE "after"
  /\ spStopRet' = ~spTerm
  /\ UNCHANGED <<spDone, spWg, spG, spTicks, spMainW, spRest, uiVars, runVars, diffVars, yVars>>

\* stop: close(done)
SpClose ==
  /\ flow = "spinner"
  /\ spPc = "close"
  /\ spPc' = "wait"
  /\ spDone' = TRUE
  /\ UNCHANGED <<spWg, spG, spTicks, spMainW, spStops, spStopRet, spRest, uiVars, runVars, diffVars, yVars>>

\* stop without wg.Wait(): the goroutine is left detached
SpWait_Detached ==
  /\ flow = "spinner"
  /\ spPc = "wait"
  /\ spPc' = "clear"
  /\ UNCHANGED <<spDone, spWg, spG, spTicks, spMainW, spStops, spStopRet, spRest, uiVars, runVars, diffVars, yVars>>

\* stop: wg.Wait() returns
SpWait ==
  /\ flow = "spinner"
  /\ spPc = "wait"
  /\ spWg = 0
  /\ spPc' = "clear"
  /\ UNCHANGED <<spDone, spWg, spG, spTicks, spMainW, spStops, spStopRet, spRest, uiVars, runVars, diffVars, yVars>>

\* stop: the Fprint of the clear sequence begins
SpClearBegin ==
  /\ flow = "spinner"
  /\ spPc = "clear"
  /\ spPc' = "clearw"
  /\ spMainW' = "clear"
  /\ UNCHANGED <<spDone, spWg, spG, spTicks, spStops, spStopRet, spRest, uiVars, runVars, diffVars, yVars>>

\* stop: the clear sequence is written and stop returns
SpClearEnd ==
  /\ flow = "spinner"
  /\ spPc = "clearw"
  /\ spPc' = "after"
  /\ spMainW' = ""
  /\ spStopRet' = TRUE
  /\ UNCHANGED <<spDone, spWg, spG, spTicks, spStops, spRest, uiVars, runVars, diffVars, yVars>>

\* runCommandWithSpinner writes the captured stderr to the spinner's writer
SpFlushes == spCaller = "runCommandWithSpinner" /\ spErrBuf

\* runCommandWithSpinner: fmt.Fprint(stderr, errBuf.String()) begins
SpFlushBegin ==
  /\ flow = "spinner"
  /\ spPc = "after"
  /\ SpFlushes
  /\ spPc' = "flushw"
  /\ spMainW' = "flush"
  /\ UNCHANGED <<spDone, spWg, spG, spTicks, spStops, spStopRet, spRest, uiVars, runVars, diffVars, yVars>>

\* the captured stderr is written
SpFlushEnd ==
  /\ flow = "spinner"
  /\ spPc = "flushw"
  /\ spPc' = "flushed"
  /\ spMainW' = ""
  /\ UNCHANGED <<spDone, spWg, spG, spTicks, spStops, spStopRet, spRest, uiVars, runVars, diffVars, yVars>>

\* the caller returns
SpReturn ==
  /\ flow = "spinner"
  /\ \/ spPc = "after" /\ ~SpFlushes
     \/ spPc = "flushed"
  /\ spPc' = "returned"
  /\ UNCHANGED <<spDone, spWg, spG, spTicks, spMainW, spStops, spStopRet, spRest, uiVars, runVars, diffVars, yVars>>

(***************************************************************************)
(* cmd.runPRCreate and cmd.ensureBranchPushed.  Each action is one call    *)
(* the function makes together with the code that handles its result; the  *)
(* result itself is chosen by the environment.                             *)
(***************************************************************************)

\* calls of runPRCreate whose only effect on what follows is to fail or not
SimpleCalls == {"config", "repoInfo", "branch", "pushStatus", "authToken",
                "repoRoot", "template", "baseBranch", "diffStat"}

\* what prTUI.Run can return (PRRunResult)
TUIResults ==
  { r \in [content : PRContents \cup {Nil}, confirmed : BOOLEAN, err : MaybeErr] :
      /\ r.err # Nil => (r.content = Nil /\ ~r.confirmed)
      /\ r.confirmed => r.content # Nil }

RunReturn(e) ==
  /\ runPc' = "returned"
  /\ runErr' = e

AfterAIClient_IgnoreYes ==
  IF prDryRun THEN "dryGenerate" ELSE "tui"

\* the branch runPRCreate takes once the AI client exists
AfterAIClient ==
  IF prDryRun THEN "dryGenerate" ELSE IF prYes THEN "yesGenerate" ELSE "tui"

AfterCall(pc) ==
  CASE pc = "config" -> "repoInfo"
    [] pc = "repoInfo" -> "branch"
    [] pc = "branch" -> "pushStatus"
    [] pc = "pushStatus" -> "findPR"
    [] pc = "authToken" -> "repoRoot"
    [] pc = "repoRoot" -> "template"
    [] pc = "template" -> "baseBranch"
    [] pc = "baseBranch" -> "commitLog"
    [] pc = "diffStat" -> "diff"

RunSimpleCall ==
  /\ flow = "prcreate"
  /\ runPc \in SimpleCalls
  /\ \E e \in MaybeErr :
       IF e # Nil
         THEN RunReturn(e)
         ELSE runPc' = AfterCall(runPc) /\ UNCHANGED runErr
  /\ UNCHANGED <<runFlags, runEnv, runEbp, runOut, uiVars, spVars, diffVars, yVars>>

RunFindPR ==
  /\ flow = "prcreate"
  /\ runPc = "findPR"
  /\ \E e \in MaybeErr, pr \in ExistingPRs \cup {"nil"} :
       IF e # Nil
         THEN /\ RunReturn(e)
              /\ UNCHANGED <<existingPR, updateExisting, runReported>>
         ELSE /\ existingPR' = pr
              /\ updateExisting' = (pr # "nil" /\ prUpdate)
              /\ IF pr # "nil" /\ ~prUpdate
                   THEN runReported' = TRUE /\ RunReturn(Nil)
                   ELSE /\ runPc' = "authToken"
                        /\ UNCHANGED <<runErr, runReported>>
  /\ UNCHANGED <<runFlags, runSeen, runLog, runDiff, runEbp,
                 runGen, runTui, tuiRet, runGh, runPrinted, prContent, uiVars, spVars, diffVars, yVars>>

RunCommitLog_NoCheck ==
  /\ flow = "prcreate"
  /\ runPc = "commitLog"
  /\ \E e \in MaybeErr, out \in GitOutputs :
       IF e # Nil
         THEN RunReturn(e) /\ UNCHANGED <<runSeen, runLog>>
         ELSE /\ runLog' = TrimSpace(out)
              /\ runSeen' = runSeen \cup {"commitLog"}
              /\ runPc' = "diffStat" /\ UNCHANGED runErr
  /\ UNCHANGED <<runFlags, existingPR, updateExisting, runDiff, runEbp, runOut,
                 uiVars, spVars, diffVars, yVars>>

RunCommitLog ==
  /\ flow = "prcreate"
  /\ runPc = "commitLog"
  /\ \E e \in MaybeErr, out \in GitOutputs :
       IF e # Nil
         THEN RunReturn(e) /\ UNCHANGED <<runSeen, runLog>>
         ELSE /\ runLog' = TrimSpace(out)
              /\ runSeen' = runSeen \cup {"commitLog"}
              /\ IF runLog' = <<>>
                   THEN RunReturn("no commits found")
                   ELSE runPc' = "diffStat" /\ UNCHANGED runErr
  /\ UNCHANGED <<runFlags, existingPR, updateExisting, runDiff, runEbp, runOut,
                 uiVars, spVars, diffVars, yVars>>

RunDiff_PushInDryRun ==
  /\ flow = "prcreate"
  /\ runPc = "diff"
  /\ \E e \in MaybeErr, out \in GitOutputs :
       IF e # Nil
         THEN RunReturn(e) /\ UNCHANGED <<runSeen, runDiff>>
         ELSE /\ runDiff' = TrimSpace(out)
              /\ runSeen' = runSeen \cup {"diff"}
              /\ IF runDiff' = <<>>
                   THEN RunReturn("no committed changes")
                   ELSE /\ runPc' = "ebpStatus"
                        /\ UNCHANGED runErr
  /\ UNCHANGED <<runFlags, existingPR, updateExisting, runLog, runEbp, runOut,
                 uiVars, spVars, diffVars, yVars>>

RunDiff ==
  /\ flow = "prcreate"
  /\ runPc = "diff"
  /\ \E e \in MaybeErr, out \in GitOutputs :
       IF e # Nil
         THEN RunReturn(e) /\ UNCHANGED <<runSeen, runDiff>>
         ELSE /\ runDiff' = TrimSpace(out)
              /\ runSeen' = runSeen \cup {"diff"}
              /\ IF runDiff' = <<>>
                   THEN RunReturn("no committed changes")
                   ELSE /\ runPc' = IF prDryRun THEN "aiClient" ELSE "ebpStatus"
                        /\ UNCHANGED runErr
  /\ UNCHANGED <<runFlags, existingPR, updateExisting, runLog, runEbp, runOut,
                 uiVars, spVars, diffVars, yVars>>

\* ensureBranchPushed returns (c, e) and runPRCreate acts on it
EbpReturn(c, e) ==
  /\ ebpRet' = [returned |-> TRUE, continue |-> c, err |-> e]
  /\ IF e # Nil
       THEN RunReturn(e)
       ELSE IF ~c
              THEN RunReturn(Nil)
              ELSE runPc' = "aiClient" /\ UNCHANGED runErr

EbpStatus ==
  /\ flow = "prcreate"
  /\ runPc = "ebpStatus"
  /\ \E e \in MaybeErr, hp \in {"true", "false"} :
       IF e # Nil
         THEN EbpReturn(FALSE, e) /\ UNCHANGED headPushed
         ELSE /\ headPushed' = hp
              /\ IF hp = "true"
                   THEN EbpReturn(TRUE, Nil)
                   ELSE runPc' = "ebpPrompt" /\ UNCHANGED <<runErr, ebpRet>>
  /\ UNCHANGED <<runFlags, runEnv, runPrompts, runAnswer, runPushes, runOut, uiVars, spVars, diffVars, yVars>>

EbpPrompt_PushAnyway ==
  /\ flow = "prcreate"
  /\ runPc = "ebpPrompt"
  /\ runPrompts' = runPrompts + 1
  /\ \E e \in MaybeErr, answer \in {"yes", "no"} :
       IF e # Nil
         THEN EbpReturn(FALSE, e) /\ UNCHANGED runAnswer
         ELSE /\ runAnswer' = answer
              /\ runPc' = "ebpPush" /\ UNCHANGED <<runErr, ebpRet>>
  /\ UNCHANGED <<runFlags, runEnv, headPushed, runPushes, runOut, uiVars, spVars, diffVars, yVars>>

EbpPrompt ==
  /\ flow = "prcreate"
  /\ runPc = "ebpPrompt"
  /\ runPrompts' = runPrompts + 1
  /\ \E e \in MaybeErr, answer \in {"yes", "no"} :
       IF e # Nil
         THEN EbpReturn(FALSE, e) /\ UNCHANGED runAnswer
         ELSE /\ runAnswer' = answer
              /\ IF answer = "no"
                   THEN EbpReturn(FALSE, Nil)
                   ELSE runPc' = "ebpPush" /\ UNCHANGED <<runErr, ebpRet>>
  /\ UNCHANGED <<runFlags, runEnv, headPushed, runPushes, runOut, uiVars, spVars, diffVars, yVars>>

EbpPush ==
  /\ flow = "prcreate"
  /\ runPc = "ebpPush"
  /\ runPushes' = runPushes + 1
  /\ \E e \in MaybeErr :
       IF e # Nil THEN EbpReturn(FALSE, e) ELSE EbpReturn(TRUE, Nil)
  /\ UNCHANGED <<runFlags, runEnv, headPushed, runPrompts, runAnswer, runOut,
                 uiVars, spVars, diffVars, yVars>>

RunAIClient ==
  /\ flow = "prcreate"
  /\ runPc = "aiClient"
  /\ \E e \in MaybeErr :
       IF e # Nil
         THEN RunReturn(e)
         ELSE runPc' = AfterAIClient /\ UNCHANGED runErr
  /\ UNCHANGED <<runFlags, runEnv, runEbp, runOut, uiVars, spVars, diffVars, yVars>>

RunGenerate ==
  /\ flow = "prcreate"
  /\ runPc \in {"dryGenerate", "yesGenerate"}
  /\ runGen' = runGen + 1
  /\ \E e \in MaybeErr, c \in PRContents :
       IF e # Nil
         THEN RunReturn(e) /\ UNCHANGED <<prContent, runPrinted>>
         ELSE /\ prContent' = c
              /\ IF runPc = "dryGenerate"
                   THEN runPrinted' = TRUE /\ RunReturn(Nil)
                   ELSE runPc' = "gh" /\ UNCHANGED <<runErr, runPrinted>>
  /\ UNCHANGED <<runFlags, runEnv, runEbp, runTui, tuiRet, runGh, runReported,
                 uiVars, spVars, diffVars, yVars>>

RunTUI_IgnoreAnswer ==
  /\ flow = "prcreate"
  /\ runPc = "tui"
  /\ runTui' = runTui + 1
  /\ runGen' = runGen + 1
  /\ \E r \in TUIResults :
       /\ tuiRet' = [returned |-> TRUE, content |-> r.content,
                     confirmed |-> r.confirmed, err |-> r.err]
       /\ IF r.err # Nil
            THEN RunReturn(r.err) /\ UNCHANGED prContent
            ELSE /\ prContent' = r.content
                 /\ runPc' = "gh" /\ UNCHANGED runErr
  /\ UNCHANGED <<runFlags, runEnv, runEbp, runGh, runPrinted, runReported,
                 uiVars, spVars, diffVars, yVars>>

RunTUI ==
  /\ flow = "prcreate"
  /\ runPc = "tui"
  /\ runTui' = runTui + 1
  /\ runGen' = runGen + 1
  /\ \E r \in TUIResults :
       /\ tuiRet' = [returned |-> TRUE, content |-> r.content,
                     confirmed |-> r.confirmed, err |-> r.err]
       /\ IF r.err # Nil
            THEN RunReturn(r.err) /\ UNCHANGED prContent
            ELSE IF ~r.confirmed
                   THEN RunReturn(Nil) /\ UNCHANGED prContent
                   ELSE /\ prContent' = r.content
                        /\ runPc' = "gh" /\ UNCHANGED runErr
  /\ UNCHANGED <<runFlags, runEnv, runEbp, runGh, runPrinted, runReported,
                 uiVars, spVars, diffVars, yVars>>

GhArgs_AlwaysCreate ==
  <<"create">>

\* the gh pr command runPRCreate runs
GhArgs ==
  IF updateExisting THEN <<"edit", existingPR>> ELSE <<"create">>

RunGh ==
  /\ flow = "prcreate"
  /\ runPc = "gh"
  /\ runGh' = Append(runGh, GhArgs)
  /\ \E e \in MaybeErr : RunReturn(e)
  /\ UNCHANGED <<runFlags, runEnv, runEbp, runGen, runTui, tuiRet, runPrinted,
                 runReported, prContent, uiVars, spVars, diffVars, yVars>>

(***************************************************************************)
(* git.ParseDiffSummary, after section 4.1 of the specification: the diff  *)
(* is read line by line; a file header starts (or selects) the FileChange  *)
(* keyed by its display path; "+" and "-" lines are counted for the        *)
(* current file, "+++" and "---" lines are not; anything else is ignored.  *)
(***************************************************************************)

\* s begins with p
HasPrefix(s, p) ==
  Len(s) >= Len(p) /\ SubSeq(s, 1, Len(p)) = p

\* the file header marker, as in the specification's example "+++ b/x.go"
HeaderMarker == <<"+", "+", "+", " ">>

IsHeader(line) == HasPrefix(line, HeaderMarker)

IsAdded(line) == HasPrefix(line, <<"+">>) /\ ~HasPrefix(line, <<"+", "+", "+">>)

IsDeleted_CountsOldPath(line) == HasPrefix(line, <<"-">>)

IsDeleted(line) == HasPrefix(line, <<"-">>) /\ ~HasPrefix(line, <<"-", "-", "-">>)

\* the path a header names, without the marker and the "b/" of the new side
DisplayPath(line) ==
  LET p == SubSeq(line, Len(HeaderMarker) + 1, Len(line))
  IN  IF HasPrefix(p, <<"b", "/">>) THEN SubSeq(p, 3, Len(p)) ELSE p

\* position of the FileChange named n in files, 0 if there is none
FileIndex(files, n) ==
  IF \E i \in 1..Len(files) : files[i].Name = n
    THEN CHOOSE i \in 1..Len(files) : files[i].Name = n
    ELSE 0

StartSection_Prepend(files, n) ==
  IF FileIndex(files, n) # 0
    THEN [files |-> files, cur |-> FileIndex(files, n)]
    ELSE [files |-> <<[Name |-> n, AddedLines |-> 0, DeletedLines |-> 0]>> \o files,
          cur |-> 1]

\* a header makes the FileChange keyed by n current, appending it when new
StartSection(files, n) ==
  IF FileIndex(files, n) # 0
    THEN [files |-> files, cur |-> FileIndex(files, n)]
    ELSE [files |-> Append(files, [Name |-> n, AddedLines |-> 0, DeletedLines |-> 0]),
          cur |-> Len(files) + 1]

\* one line of the diff is read
ParseLine ==
  /\ flow = "diff"
  /\ diffPc = "parse"
  /\ diffPos <= Len(diffInput)
  /\ diffPos' = diffPos + 1
  /\ LET line == diffInput[diffPos]
     IN  IF IsHeader(line) THEN
           /\ diffFiles' = StartSection(diffFiles, DisplayPath(line)).files
           /\ diffCur' = StartSection(diffFiles, DisplayPath(line)).cur
         ELSE IF diffCur # 0 /\ IsAdded(line) THEN
           /\ diffFiles' = [diffFiles EXCEPT ![diffCur].AddedLines = @ + 1]
           /\ UNCHANGED diffCur
         ELSE IF diffCur # 0 /\ IsDeleted(line) THEN
           /\ diffFiles' = [diffFiles EXCEPT ![diffCur].DeletedLines = @ + 1]
           /\ UNCHANGED diffCur
         ELSE
           UNCHANGED <<diffFiles, diffCur>>
  /\ UNCHANGED <<diffInput, diffPc, uiVars, spVars, runVars, yVars>>

\* the last line was read: the summary is returned
ParseReturn ==
  /\ flow = "diff"
  /\ diffPc = "parse"
  /\ diffPos > Len(diffInput)
  /\ diffPc' = "returned"
  /\ UNCHANGED <<diffInput, diffPos, diffFiles, diffCur, uiVars, spVars, runVars, yVars>>

(***************************************************************************)
(* ui.reviewModel with streaming.  Init batches the spinner tick,          *)
(* generateReviewStreaming and waitForActivity.  The goroutine started by  *)
(* generateReviewStreaming sends the chunks of ReviewCodeStreaming on sub, *)
(* sends one empty chunk when the call failed, and closes sub;             *)
(* waitForActivity turns a received chunk into msgReviewChunk and a closed *)
(* channel into msgReviewComplete{err: nil}.  No command of this model     *)
(* produces msgReviewGenerated.                                            *)
(***************************************************************************)

\* p.Run() calls Init
RvInit ==
  /\ flow = "review"
  /\ rvPhase = "new"
  /\ rvPhase' = "running"
  /\ rvTickCmd' = TRUE
  /\ rvGenCmd' = TRUE
  /\ rvWaitCmd' = TRUE
  /\ UNCHANGED <<rvState, rvReview, rvErr, rvQuitCmd, rvInbox, rvSub, rvClosed, rvG,
                 rvSent, rvStreamErr, rvRet, oldVars, tplVars, fpVars, psVars, vxVars>>

\* the command of generateReviewStreaming starts the goroutine and returns nil
RvGenerate ==
  /\ flow = "review"
  /\ rvPhase \in {"running", "exited"}
  /\ rvGenCmd
  /\ rvGenCmd' = FALSE
  /\ rvG' = "streaming"
  /\ UNCHANGED <<rvPhase, rvState, rvReview, rvErr, rvQuitCmd, rvTickCmd, rvWaitCmd,
                 rvInbox, rvSub, rvClosed, rvSent, rvStreamErr, rvRet,
                 oldVars, tplVars, fpVars, psVars, vxVars>>

\* ReviewCodeStreaming calls the callback with a chunk, which is sent on sub
RvChunk ==
  /\ flow = "review"
  /\ rvG = "streaming"
  /\ rvSent < MaxChunks
  /\ Len(rvSub) < SubCap
  /\ \E c \in ChunkTexts : rvSub' = Append(rvSub, c)
  /\ rvSent' = rvSent + 1
  /\ UNCHANGED <<rvPhase, rvState, rvReview, rvErr, rvQuitCmd, rvTickCmd, rvGenCmd,
                 rvWaitCmd, rvInbox, rvClosed, rvG, rvStreamErr, rvRet,
                 oldVars, tplVars, fpVars, psVars, vxVars>>

\* ReviewCodeStreaming returns
RvStreamReturn ==
  /\ flow = "review"
  /\ rvG = "streaming"
  /\ \E e \in MaybeErr :
       /\ rvStreamErr' = e
       /\ rvG' = IF e # Nil THEN "signal" ELSE "closing"
  /\ UNCHANGED <<rvPhase, rvState, rvReview, rvErr, rvQuitCmd, rvTickCmd, rvGenCmd,
                 rvWaitCmd, rvInbox, rvSub, rvClosed, rvSent, rvRet,
                 oldVars, tplVars, fpVars, psVars, vxVars>>

\* if err != nil { m.sub <- msgReviewChunk{} }
RvSignalError ==
  /\ flow = "review"
  /\ rvG = "signal"
  /\ Len(rvSub) < SubCap
  /\ rvSub' = Append(rvSub, "")
  /\ rvG' = "closing"
  /\ UNCHANGED <<rvPhase, rvState, rvReview, rvErr, rvQuitCmd, rvTickCmd, rvGenCmd,
                 rvWaitCmd, rvInbox, rvClosed, rvSent, rvStreamErr, rvRet,
                 oldVars, tplVars, fpVars, psVars, vxVars>>

\* defer close(m.sub)
RvClose ==
  /\ flow = "review"
  /\ rvG = "closing"
  /\ rvClosed' = TRUE
  /\ rvG' = "exited"
  /\ UNCHANGED <<rvPhase, rvState, rvReview, rvErr, rvQuitCmd, rvTickCmd, rvGenCmd,
                 rvWaitCmd, rvInbox, rvSub, rvSent, rvStreamErr, rvRet,
                 oldVars, tplVars, fpVars, psVars, vxVars>>

\* the message waitForActivity makes of a closed channel
WaitClosedMsg ==
  [kind |-> "msgReviewComplete", chunk |-> "", err |-> Nil]

\* the command of waitForActivity receives from sub
RvWait ==
  /\ flow = "review"
  /\ rvWaitCmd
  /\ rvSub # <<>> \/ rvClosed
  /\ rvWaitCmd' = FALSE
  /\ IF rvSub # <<>>
       THEN /\ rvInbox' = [kind |-> "msgReviewChunk", chunk |-> Head(rvSub), err |-> Nil]
            /\ rvSub' = Tail(rvSub)
       ELSE /\ rvInbox' = WaitClosedMsg
            /\ UNCHANGED rvSub
  /\ UNCHANGED <<rvPhase, rvState, rvReview, rvErr, rvQuitCmd, rvTickCmd, rvGenCmd,
                 rvClosed, rvG, rvSent, rvStreamErr, rvRet,
                 oldVars, tplVars, fpVars, psVars, vxVars>>

\* case msgReviewChunk
RvOnChunk ==
  /\ rvState' = IF rvState = "reviewStateLoading" THEN "reviewStateStreaming" ELSE rvState
  /\ rvReview' = IF rvInbox.chunk = "" THEN rvReview ELSE Append(rvReview, rvInbox.chunk)
  /\ rvWaitCmd' = TRUE
  /\ UNCHANGED <<rvErr, rvQuitCmd>>

\* case msgReviewComplete
RvOnComplete ==
  /\ IF rvInbox.err # Nil
       THEN rvErr' = rvInbox.err /\ rvState' = "reviewStateError"
       ELSE rvState' = "reviewStateDisplay" /\ UNCHANGED rvErr
  /\ rvQuitCmd' = TRUE
  /\ UNCHANGED <<rvReview, rvWaitCmd>>

\* the message of waitForActivity is delivered to Update
RvDeliver ==
  /\ flow = "review"
  /\ rvPhase = "running"
  /\ rvInbox.kind # "none"
  /\ IF rvInbox.kind = "msgReviewChunk" THEN RvOnChunk ELSE RvOnComplete
  /\ rvInbox' = [kind |-> "none", chunk |-> "", err |-> Nil]
  /\ UNCHANGED <<rvPhase, rvTickCmd, rvGenCmd, rvSub, rvClosed, rvG, rvSent,
                 rvStreamErr, rvRet, oldVars, tplVars, fpVars, psVars, vxVars>>

\* case tea.KeyMsg
RvKey ==
  /\ flow = "review"
  /\ rvPhase = "running"
  /\ \E k \in {"q", "ctrl+c", "x"} :
       IF rvState \in {"reviewStateLoading", "reviewStateStreaming"}
         THEN rvQuitCmd' = (rvQuitCmd \/ k \in {"q", "ctrl+c"})
         ELSE rvQuitCmd' = TRUE
  /\ UNCHANGED <<rvPhase, rvState, rvReview, rvErr, rvTickCmd, rvGenCmd, rvWaitCmd,
                 rvInbox, rvSub, rvClosed, rvG, rvSent, rvStreamErr, rvRet,
                 oldVars, tplVars, fpVars, psVars, vxVars>>

\* a spinner.TickMsg: the spinner ticks again only while loading
RvTick ==
  /\ flow = "review"
  /\ rvPhase = "running"
  /\ rvTickCmd
  /\ rvTickCmd' = (rvState = "reviewStateLoading")
  /\ UNCHANGED <<rvPhase, rvState, rvReview, rvErr, rvQuitCmd, rvGenCmd, rvWaitCmd,
                 rvInbox, rvSub, rvClosed, rvG, rvSent, rvStreamErr, rvRet,
                 oldVars, tplVars, fpVars, psVars, vxVars>>

\* what reviewModel.Run returns when p.Run() returns a nil error
RvRunResult ==
  IF rvErr # Nil
    THEN [returned |-> TRUE, review |-> <<>>, err |-> rvErr]
    ELSE [returned |-> TRUE, review |-> rvReview, err |-> Nil]

\* the QuitMsg of tea.Quit ends p.Run()
RvQuit ==
  /\ flow = "review"
  /\ rvPhase = "running"
  /\ rvQuitCmd
  /\ rvPhase' = "exited"
  /\ rvRet' = RvRunResult
  /\ UNCHANGED <<rvState, rvReview, rvErr, rvQuitCmd, rvTickCmd, rvGenCmd, rvWaitCmd,
                 rvInbox, rvSub, rvClosed, rvG, rvSent, rvStreamErr,
                 oldVars, tplVars, fpVars, psVars, vxVars>>

(***************************************************************************)
(* github.FindPullRequestTemplate.  The file system and the GitHub API are *)
(* the environment: each os.Stat, os.ReadDir, os.ReadFile and each request *)
(* gets its answer when it is made.  File names are sequences of           *)
(* characters, ordered as sort.Strings orders them, by their bytes.        *)
(***************************************************************************)

templateFileCandidates ==
  << ".github/PULL_REQUEST_TEMPLATE.md", ".github/pull_request_template.md",
     "PULL_REQUEST_TEMPLATE.md", "pull_request_template.md",
     "docs/PULL_REQUEST_TEMPLATE.md", "docs/pull_request_template.md" >>

templateDirCandidates ==
  << ".github/PULL_REQUEST_TEMPLATE", ".github/pull_request_template",
     "PULL_REQUEST_TEMPLATE", "pull_request_template",
     "docs/PULL_REQUEST_TEMPLATE", "docs/pull_request_template" >>

\* the bytes of the characters used in file names
Byte ==
  [c \in {".", "B", "D", "M", "a", "b", "d", "g", "m", "o", "t", "x"} |->
     CASE c = "." -> 46 [] c = "B" -> 66 [] c = "D" -> 68 [] c = "M" -> 77
       [] c = "a" -> 97 [] c = "b" -> 98 [] c = "d" -> 100 [] c = "g" -> 103
       [] c = "m" -> 109 [] c = "o" -> 111 [] c = "t" -> 116 [] c = "x" -> 120]

\* strings.ToLower, one character
LowerChar(c) ==
  CASE c = "A" -> "a" [] c = "B" -> "b" [] c = "D" -> "d" [] c = "M" -> "m" [] OTHER -> c

ToLower(s) == [i \in 1..Len(s) |-> LowerChar(s[i])]

HasSuffix(s, suf) ==
  Len(s) >= Len(suf) /\ SubSeq(s, Len(s) - Len(suf) + 1, Len(s)) = suf

isTemplateFile(name) ==
  \/ HasSuffix(ToLower(name), <<".", "m", "d">>)
  \/ HasSuffix(ToLower(name), <<".", "m", "a", "r", "k", "d", "o", "w", "n">>)
  \/ HasSuffix(ToLower(name), <<".", "t", "x", "t">>)

RECURSIVE LexLess(_, _)
\* s < t for Go strings
LexLess(s, t) ==
  IF t = <<>> THEN FALSE
  ELSE IF s = <<>> THEN TRUE
  ELSE IF Byte[Head(s)] # Byte[Head(t)] THEN Byte[Head(s)] < Byte[Head(t)]
  ELSE LexLess(Tail(s), Tail(t))

\* directory entries the environment can list
EntryPool ==
  { [name |-> <<"a", ".", "m", "d">>, isDir |-> FALSE],
    [name |-> <<"B", ".", "M", "D">>, isDir |-> FALSE],
    [name |-> <<"b", ".", "t", "x", "t">>, isDir |-> FALSE],
    [name |-> <<"a", ".", "g", "o">>, isDir |-> FALSE],
    [name |-> <<"a", ".", "d">>, isDir |-> TRUE],
    [name |-> <<"B", ".", "m", "d">>, isDir |-> TRUE] }

\* the listings of a directory
Listings == { l \in SUBSET EntryPool : Cardinality(l) <= MaxEntries }

\* the candidates slice of selectTemplateFromDir and fetchGitHubDirTemplate
DirCandidates(l) == { e.name : e \in { x \in l : ~x.isDir /\ isTemplateFile(x.name) } }

\* the listing has a file whose name ends in .md, .markdown or .txt, whatever
\* the case of its letters
HoldsTemplate(l) ==
  \E x \in l :
    /\ ~x.isDir
    /\ \E suf \in { <<".", "m", "d">>, <<".", "t", "x", "t">>,
                     <<".", "m", "a", "r", "k", "d", "o", "w", "n">> } :
         /\ Len(x.name) >= Len(suf)
         /\ \A i \in 1..Len(suf) :
              LowerChar(x.name[Len(x.name) - Len(suf) + i]) = suf[i]

\* candidates[0] after sort.Strings(candidates)
FirstSorted(names) ==
  CHOOSE n \in names : \A m \in names : m = n \/ LexLess(n, m)

TplReturn(t, e) ==
  /\ tplPc' = "returned"
  /\ tplRet' = [returned |-> TRUE, template |-> t, err |-> e]
  /\ UNCHANGED tplIdx

\* FindPullRequestTemplate after findLocalPullRequestTemplate returned nil, nil
TplAfterLocal ==
  IF tplOwner = "" \/ tplToken = ""
    THEN TplReturn(NoTemplate, Nil)
    ELSE tplPc' = "orgFiles" /\ tplIdx' = 1 /\ UNCHANGED tplRet

\* continue in one of the four loops
TplContinue ==
  IF tplIdx < Len(IF tplPc \in {"localFiles", "orgFiles"}
                    THEN templateFileCandidates ELSE templateDirCandidates)
    THEN tplIdx' = tplIdx + 1 /\ UNCHANGED <<tplPc, tplRet>>
    ELSE CASE tplPc = "localFiles" -> tplPc' = "localDirs" /\ tplIdx' = 1 /\ UNCHANGED tplRet
           [] tplPc = "localDirs" -> TplAfterLocal
           [] tplPc = "orgFiles" -> tplPc' = "orgDirs" /\ tplIdx' = 1 /\ UNCHANGED tplRet
           [] tplPc = "orgDirs" -> TplReturn(NoTemplate, Nil)

\* a candidate is examined; over says that it was passed over although it
\* held a template
TplNote(over) ==
  /\ tplChecked' = tplChecked \cup {<<tplPc, tplIdx>>}
  /\ tplPassedOver' = (tplPassedOver \/ over)

TplLocalFile_FallThrough ==
  /\ flow = "template"
  /\ tplPc = "localFiles"
  /\ \E st \in {"missing", "dir", "file"}, rd \in MaybeErr :
       /\ TplNote(FALSE)
       /\ IF st # "file"
            THEN TplContinue /\ UNCHANGED tplReadErr
            ELSE IF rd # Nil
                   THEN TplContinue /\ tplReadErr' = TRUE
                   ELSE /\ TplReturn([found |-> TRUE, source |-> "repo",
                                      path |-> templateFileCandidates[tplIdx],
                                      name |-> <<>>], Nil)
                        /\ UNCHANGED tplReadErr
  /\ UNCHANGED <<tplToken, tplOwner, tplNet, tplListing, oldVars, rvVars, fpVars, psVars, vxVars>>

\* first loop of findLocalPullRequestTemplate
TplLocalFile ==
  /\ flow = "template"
  /\ tplPc = "localFiles"
  /\ \E st \in {"missing", "dir", "file"}, rd \in MaybeErr :
       /\ TplNote(FALSE)
       /\ IF st # "file"
            THEN TplContinue /\ UNCHANGED tplReadErr
            ELSE IF rd # Nil
                   THEN TplReturn(NoTemplate, rd) /\ tplReadErr' = TRUE
                   ELSE /\ TplReturn([found |-> TRUE, source |-> "repo",
                                      path |-> templateFileCandidates[tplIdx],
                                      name |-> <<>>], Nil)
                        /\ UNCHANGED tplReadErr
  /\ UNCHANGED <<tplToken, tplOwner, tplNet, tplListing, oldVars, rvVars, fpVars, psVars, vxVars>>

\* second loop of findLocalPullRequestTemplate, with selectTemplateFromDir
TplLocalDir ==
  /\ flow = "template"
  /\ tplPc = "localDirs"
  /\ \E st \in {"missing", "file", "dir"}, e \in MaybeErr, l \in Listings, rd \in MaybeErr :
       IF st # "dir" THEN
         /\ TplNote(FALSE)
         /\ TplContinue
         /\ UNCHANGED <<tplReadErr, tplListing>>
       ELSE IF e # Nil THEN
         /\ TplNote(FALSE)
         /\ TplReturn(NoTemplate, e)
         /\ UNCHANGED <<tplReadErr, tplListing>>
       ELSE IF DirCandidates(l) = {} THEN
         /\ TplNote(HoldsTemplate(l))
         /\ TplContinue
         /\ UNCHANGED <<tplReadErr, tplListing>>
       ELSE IF rd # Nil THEN
         /\ TplNote(FALSE)
         /\ TplReturn(NoTemplate, rd)
         /\ tplReadErr' = TRUE
         /\ tplListing' = l
       ELSE
         /\ TplNote(FALSE)
         /\ TplReturn([found |-> TRUE, source |-> "repo",
                       path |-> templateDirCandidates[tplIdx],
                       name |-> FirstSorted(DirCandidates(l))], Nil)
         /\ tplListing' = l
         /\ UNCHANGED tplReadErr
  /\ UNCHANGED <<tplToken, tplOwner, tplNet, oldVars, rvVars, fpVars, psVars, vxVars>>

\* first loop of findOrgPullRequestTemplate, with fetchGitHubFile
TplOrgFile ==
  /\ flow = "template"
  /\ tplPc = "orgFiles"
  /\ tplNet' = TRUE
  /\ TplNote(FALSE)
  /\ \E r \in {"error", "notfound", "found"} :
       CASE r = "error" -> TplReturn(NoTemplate, "failed")
         [] r = "notfound" -> TplContinue
         [] r = "found" -> TplReturn([found |-> TRUE, source |-> "org",
                                      path |-> templateFileCandidates[tplIdx],
                                      name |-> <<>>], Nil)
  /\ UNCHANGED <<tplToken, tplOwner, tplReadErr, tplListing, oldVars, rvVars, fpVars, psVars, vxVars>>

\* second loop of findOrgPullRequestTemplate, with fetchGitHubDirTemplate
TplOrgDir ==
  /\ flow = "template"
  /\ tplPc = "orgDirs"
  /\ tplNet' = TRUE
  /\ \E d \in {"error", "notfound", "found"}, l \in Listings,
        f \in {"error", "notfound", "found"} :
       IF d = "error" THEN
         TplNote(FALSE) /\ TplReturn(NoTemplate, "failed") /\ UNCHANGED tplListing
       ELSE IF d = "notfound" THEN
         TplNote(FALSE) /\ TplContinue /\ UNCHANGED tplListing
       ELSE IF DirCandidates(l) = {} THEN
         /\ TplNote(HoldsTemplate(l))
         /\ TplContinue
         /\ UNCHANGED tplListing
       ELSE IF f = "error" THEN
         TplNote(FALSE) /\ TplReturn(NoTemplate, "failed") /\ UNCHANGED tplListing
       ELSE IF f = "notfound" THEN
         TplNote(FALSE) /\ TplContinue /\ UNCHANGED tplListing
       ELSE
         /\ TplNote(FALSE)
         /\ TplReturn([found |-> TRUE, source |-> "org",
                       path |-> templateDirCandidates[tplIdx],
                       name |-> FirstSorted(DirCandidates(l))], Nil)
         /\ tplListing' = l
  /\ UNCHANGED <<tplToken, tplOwner, tplReadErr, oldVars, rvVars, fpVars, psVars, vxVars>>

(***************************************************************************)
(* github.FindPullRequest.  The repository is the set of its pull requests *)
(* with the head branch asked for; gh pr list answers from it, newest      *)
(* first.  normalizeOwners builds a Go map and FindPullRequest ranges over *)
(* it: the order of a range over a map is not specified, so each iteration *)
(* takes any owner not yet tried.  The function is run twice (Runs) on the *)
(* same arguments and the same repository, the second run after the first. *)
(***************************************************************************)

\* what gh pr list --head head prints: head is an owner, or <<>> for the branch alone
listByHead(owner) ==
  { pr \in fpRepo : owner = <<>> \/ ToLower(TrimSpace(pr.login)) = owner }

\* the first element of a list of pull requests (gh lists the newest first)
FirstListed(prs) == CHOOSE pr \in prs : \A q \in prs : q.Number <= pr.Number

\* the pull requests selectMatch does not skip
Matching(prs, owner, owners) ==
  { pr \in prs :
      LET login == ToLower(TrimSpace(pr.login))
      IN  /\ ~(owner # <<>> /\ login # owner)
          /\ ~(owner = <<>> /\ owners # {} /\ login # <<>> /\ login \notin owners) }

\* selectMatch: the first pull request of the list that is not skipped
selectMatch(prs, owner, owners) ==
  IF Matching(prs, owner, owners) = {}
    THEN [found |-> FALSE, Number |-> 0]
    ELSE [found |-> TRUE, Number |-> FirstListed(Matching(prs, owner, owners)).Number]

\* normalizeOwners: the keys of the map
normalizeOwners(headOwners) ==
  { ToLower(TrimSpace(headOwners[i])) : i \in 1..Len(headOwners) } \ { <<>> }

FpReturn(r, pr, e) ==
  /\ fpPc' = [fpPc EXCEPT ![r] = "returned"]
  /\ fpRet' = [fpRet EXCEPT ![r] = [returned |-> TRUE, pr |-> pr, err |-> e]]

\* the head branch is checked and the owners are normalized
FpStart ==
  /\ flow = "findpr"
  /\ \E r \in Runs :
       /\ fpPc[r] = "start"
       /\ \A q \in Runs : q < r => fpPc[q] = "returned"
       /\ IF TrimSpace(fpBranch) = <<>>
            THEN FpReturn(r, [found |-> FALSE, Number |-> 0], "head branch is empty")
                 /\ UNCHANGED fpOwners
            ELSE /\ fpOwners' = [fpOwners EXCEPT ![r] = normalizeOwners(fpHeadOwners)]
                 /\ fpPc' = [fpPc EXCEPT ![r] = "owners"]
                 /\ UNCHANGED fpRet
  /\ UNCHANGED <<fpHeadOwners, fpBranch, fpRepo, fpTried, oldVars, rvVars, tplVars, psVars, vxVars>>

\* one iteration of for owner := range owners
FpTryOwner ==
  /\ flow = "findpr"
  /\ \E r \in Runs :
       /\ fpPc[r] = "owners"
       /\ \E owner \in fpOwners[r] \ fpTried[r], e \in MaybeErr :
            /\ fpTried' = [fpTried EXCEPT ![r] = @ \cup {owner}]
            /\ IF e # Nil
                 THEN FpReturn(r, [found |-> FALSE, Number |-> 0], e)
                 ELSE IF selectMatch(listByHead(owner), owner, fpOwners[r]).found
                        THEN FpReturn(r, selectMatch(listByHead(owner), owner, fpOwners[r]), Nil)
                        ELSE UNCHANGED <<fpPc, fpRet>>
  /\ UNCHANGED <<fpHeadOwners, fpBranch, fpRepo, fpOwners, oldVars, rvVars, tplVars, psVars, vxVars>>

\* after the loop: the pull requests of the branch, whoever owns the head
FpByBranch ==
  /\ flow = "findpr"
  /\ \E r \in Runs :
       /\ fpPc[r] = "owners"
       /\ fpTried[r] = fpOwners[r]
       /\ \E e \in MaybeErr :
            IF e # Nil
              THEN FpReturn(r, [found |-> FALSE, Number |-> 0], e)
              ELSE FpReturn(r, selectMatch(listByHead(<<>>), <<>>, fpOwners[r]), Nil)
  /\ UNCHANGED <<fpHeadOwners, fpBranch, fpRepo, fpOwners, fpTried, oldVars, rvVars, tplVars, psVars, vxVars>>

(***************************************************************************)
(* git.GetPushStatus.  The three git commands it runs are the environment: *)
(* each one exits with 0, with the exit code the helper treats as "no", or *)
(* with another failure.                                                   *)
(***************************************************************************)

RECURSIVE BeforeSlash(_)
\* strings.SplitN(ref, "/", 2)[0]
BeforeSlash(s) ==
  IF s = <<>> \/ Head(s) = "/" THEN <<>>
  ELSE <<Head(s)>> \o BeforeSlash(Tail(s))

remoteNameFromRef_NoDefault(ref) ==
  BeforeSlash(ref)

remoteNameFromRef(ref) ==
  IF BeforeSlash(ref) = <<>> THEN Origin ELSE BeforeSlash(ref)

PsReturn(e) ==
  /\ psPc' = "returned"
  /\ psErr' = e

\* getUpstreamRef and the code of GetPushStatus up to the next git command
PsUpstream ==
  /\ flow = "pushstatus"
  /\ psPc = "upstream"
  /\ \E exit \in {"ok", "128", "other"}, out \in UpstreamOutputs :
       LET ref == TrimSpace(out)
       IN  IF exit = "other" THEN
             PsReturn("failed") /\ UNCHANGED psStatus
           ELSE IF exit = "ok" /\ ref # <<>> THEN
             /\ psStatus' = [psStatus EXCEPT !.HasUpstream = TRUE, !.UpstreamRef = ref,
                                             !.RemoteRef = ref,
                                             !.RemoteName = remoteNameFromRef(ref)]
             /\ psPc' = "ancestor"
             /\ UNCHANGED psErr
           ELSE
             /\ psStatus' = [psStatus EXCEPT !.RemoteName = Origin,
                                             !.RemoteRef = Origin \o <<"/">> \o psBranch]
             /\ psPc' = "exists"
             /\ UNCHANGED psErr
  /\ UNCHANGED <<psBranch, psAncestor, psExists, oldVars, rvVars, tplVars, fpVars, vxVars>>

\* remoteBranchExists(status.RemoteRef)
PsRemoteExists ==
  /\ flow = "pushstatus"
  /\ psPc = "exists"
  /\ \E exit \in {"ok", "1", "other"} :
       /\ psExists' = CASE exit = "ok" -> "yes" [] exit = "1" -> "no" [] OTHER -> "error"
       /\ CASE exit = "other" -> PsReturn("failed")
            [] exit = "1" -> PsReturn(Nil)
            [] exit = "ok" -> psPc' = "ancestor" /\ UNCHANGED psErr
  /\ UNCHANGED <<psBranch, psStatus, psAncestor, oldVars, rvVars, tplVars, fpVars, vxVars>>

\* isAncestor("HEAD", status.RemoteRef), on both paths
PsAncestor ==
  /\ flow = "pushstatus"
  /\ psPc = "ancestor"
  /\ \E exit \in {"ok", "1", "other"} :
       /\ psAncestor' = CASE exit = "ok" -> "yes" [] exit = "1" -> "no" [] OTHER -> "error"
       /\ IF exit = "other"
            THEN PsReturn("failed") /\ UNCHANGED psStatus
            ELSE /\ psStatus' = [psStatus EXCEPT !.HeadPushed = (exit = "ok")]
                 /\ PsReturn(Nil)
  /\ UNCHANGED <<psBranch, psExists, oldVars, rvVars, tplVars, fpVars, vxVars>>

(***************************************************************************)
(* llm.NewVertexAIClient.  genai.NewClient is the environment: it reads    *)
(* GOOGLE_APPLICATION_CREDENTIALS and succeeds or fails.                   *)
(***************************************************************************)

\* the deferred function
VxRestore_Skip(env, originalCreds) ==
  env

VxRestore(env, originalCreds) ==
  IF originalCreds # ""
    THEN [env EXCEPT !["GOOGLE_APPLICATION_CREDENTIALS"] = Set(originalCreds)]
    ELSE [env EXCEPT !["GOOGLE_APPLICATION_CREDENTIALS"] = Unset]

\* the credentials path NewVertexAIClient settles on
credentialsPath_GoogleFirst(env) ==
  IF Getenv(env, "GOOGLE_APPLICATION_CREDENTIALS") # ""
    THEN Getenv(env, "GOOGLE_APPLICATION_CREDENTIALS")
    ELSE Getenv(env, "GELF_CREDENTIALS")

credentialsPath(env) ==
  IF Getenv(env, "GELF_CREDENTIALS") # ""
    THEN Getenv(env, "GELF_CREDENTIALS")
    ELSE Getenv(env, "GOOGLE_APPLICATION_CREDENTIALS")

\* up to the call of genai.NewClient
VxStart ==
  /\ flow = "vertex"
  /\ vxPc = "start"
  /\ IF credentialsPath(vxEnv) # ""
       THEN /\ vxOriginal' = Getenv(vxEnv, "GOOGLE_APPLICATION_CREDENTIALS")
            /\ vxEnv' = [vxEnv EXCEPT !["GOOGLE_APPLICATION_CREDENTIALS"] =
                                        Set(credentialsPath(vxEnv))]
            /\ vxDeferred' = TRUE
       ELSE UNCHANGED <<vxOriginal, vxEnv, vxDeferred>>
  /\ vxPc' = "newClient"
  /\ UNCHANGED <<vxEnv0, vxSeen, vxErr, oldVars, rvVars, tplVars, fpVars, psVars>>

\* genai.NewClient
VxNewClient ==
  /\ flow = "vertex"
  /\ vxPc = "newClient"
  /\ vxSeen' = Getenv(vxEnv, "GOOGLE_APPLICATION_CREDENTIALS")
  /\ vxErr' \in {Nil, "failed"}
  /\ vxPc' = "return"
  /\ UNCHANGED <<vxEnv, vxEnv0, vxOriginal, vxDeferred, oldVars, rvVars, tplVars, fpVars, psVars>>

\* either return statement, with the deferred function
VxReturn ==
  /\ flow = "vertex"
  /\ vxPc = "return"
  /\ vxEnv' = IF vxDeferred THEN VxRestore(vxEnv, vxOriginal) ELSE vxEnv
  /\ vxPc' = "returned"
  /\ UNCHANGED <<vxEnv0, vxOriginal, vxDeferred, vxSeen, vxErr, oldVars, rvVars, tplVars, fpVars, psVars>>

Next ==
  \/ ProgramInit
  \/ KeyPress
  \/ DeliverCommitGenerated
  \/ RunCommit
  \/ DeliverCommitDone
  \/ Tick
  \/ ProgramQuit
  \/ PRKeyPress
  \/ DeliverPRGenerated
  \/ PRWindowSize
  \/ PRMouse
  \/ PRTick
  \/ PRProgramQuit
  \/ SpStart
  \/ SpFirstBegin
  \/ SpFirstEnd
  \/ SpGo
  \/ SpTickBegin
  \/ SpTickEnd
  \/ SpGExit
  \/ SpCmdRun
  \/ SpStopCall
  \/ SpClose
  \/ SpWait
  \/ SpClearBegin
  \/ SpClearEnd
  \/ SpFlushBegin
  \/ SpFlushEnd
  \/ SpReturn
  \/ RunSimpleCall
  \/ RunFindPR
  \/ RunCommitLog
  \/ RunDiff
  \/ EbpStatus
  \/ EbpPrompt
  \/ EbpPush
  \/ RunAIClient
  \/ RunGenerate
  \/ RunTUI
  \/ RunGh
  \/ ParseLine
  \/ ParseReturn
  \/ RvInit
  \/ RvGenerate
  \/ RvChunk
  \/ RvStreamReturn
  \/ RvSignalError
  \/ RvClose
  \/ RvWait
  \/ RvDeliver
  \/ RvKey
  \/ RvTick
  \/ RvQuit
  \/ TplLocalFile
  \/ TplLocalDir
  \/ TplOrgFile
  \/ TplOrgDir
  \/ FpStart
  \/ FpTryOwner
  \/ FpByBranch
  \/ PsUpstream
  \/ PsRemoteExists
  \/ PsAncestor
  \/ VxStart
  \/ VxNewClient
  \/ VxReturn

Spec == Init /\ [][Next]_vars

TypeOK ==
  /\ flow \in Flows
  /\ phase \in {"new", "running", "exited", "none"}
  /\ quitCmd \in BOOLEAN /\ tickCmd \in BOOLEAN /\ genCmd \in BOOLEAN
  /\ genIssued \in 0..1
  /\ state \in {"stateLoading", "stateConfirm", "stateEditing", "stateCommitting",
                "stateSuccess", "stateError"}
  /\ err \in MaybeErr
  /\ tiPos \in 0..Len(tiValue)
  /\ tiFocus = (state = "stateEditing")
  /\ commitCmd \in {"none", "issued", "returned"}
  /\ commitIssued \in 0..1
  /\ prState \in {"prStateLoading", "prStateConfirm", "prStateDone", "prStateError"}
  /\ content \in PRContents \cup {Nil}
  /\ confirmed \in BOOLEAN
  /\ prErr \in MaybeErr
  /\ viewReady \in BOOLEAN
  /\ runPc \in SimpleCalls \cup {"findPR", "commitLog", "diff", "ebpStatus", "ebpPrompt",
                                 "ebpPush", "aiClient", "dryGenerate", "yesGenerate",
                                 "tui", "gh", "returned"}
  /\ runErr \in MaybeErr \cup {"no commits found", "no committed changes"}
  /\ existingPR \in ExistingPRs \cup {"unknown", "nil"}
  /\ runPrompts \in 0..1 /\ runPushes \in 0..1 /\ runGen \in 0..1 /\ runTui \in 0..1
  /\ Len(runGh) <= 1
  /\ prContent \in PRContents \cup {Nil}
  /\ headPushed \in {"unknown", "true", "false"}
  /\ diffPos \in 1..(Len(diffInput) + 1)
  /\ diffCur \in 0..Len(diffFiles)
  /\ diffPc \in {"parse", "returned"}
  /\ psPc \in {"upstream", "exists", "ancestor", "returned"}
  /\ psErr \in MaybeErr
  /\ psStatus.HasUpstream \in BOOLEAN /\ psStatus.HeadPushed \in BOOLEAN
  /\ psAncestor \in {"unknown", "yes", "no", "error"}
  /\ psExists \in {"unknown", "yes", "no", "error"}
  /\ vxPc \in {"start", "newClient", "return", "returned"}
  /\ vxEnv \in [{"GELF_CREDENTIALS", "GOOGLE_APPLICATION_CREDENTIALS"} -> EnvValues]
  /\ vxDeferred \in BOOLEAN
  /\ vxErr \in MaybeErr
  /\ fpPc \in [Runs -> {"start", "owners", "branch", "returned"}]
  /\ rvPhase \in {"none", "new", "running", "exited"}
  /\ rvState \in {"reviewStateLoading", "reviewStateStreaming", "reviewStateDisplay",
                   "reviewStateError"}
  /\ rvErr \in MaybeErr
  /\ Len(rvSub) <= SubCap
  /\ rvSent \in 0..MaxChunks
  /\ rvG \in {"none", "streaming", "signal", "closing", "exited"}
  /\ rvStreamErr \in MaybeErr \cup {"pending"}
  /\ tplPc \in {"localFiles", "localDirs", "orgFiles", "orgDirs", "returned"}
  /\ tplIdx \in 1..Len(templateFileCandidates)
  /\ tplRet.err \in MaybeErr
  /\ runAnswer \in {"none", "yes", "no"}

----------------------------------------------------------------------------
(* Properties *)

\* a key press in K reaches model.Update / prModel.Update
KeyStep(K) == ev'.kind = "key" /\ ev'.key \in K /\ flow = "commit" /\ KeyPress

PRKeyStep(K) == ev'.kind = "key" /\ ev'.key \in K /\ flow = "pr" /\ PRKeyPress

\* C1: in the commit model stateSuccess and stateError are terminal: once the
\* state is one of them, no message handled by Update changes it.
C1_TerminalStatesStay ==
  [][(state \in {"stateSuccess", "stateError"}) => UNCHANGED state]_vars

\* a key press was handled in stateError after a failed commit
C1_Witness ==
  /\ state = "stateError"
  /\ commitIssued = 1
  /\ ev.kind = "key"

\* C2: y/Y in stateConfirm always moves to stateCommitting, and stateSuccess
\* is entered only from stateCommitting by a msgCommitDone with a nil error.
C2_ApproveGoesToCommitting ==
  [][ /\ (state = "stateConfirm" /\ KeyStep({"y", "Y"})) => state' = "stateCommitting"
      /\ (state' = "stateSuccess" /\ state # "stateSuccess")
           => (state = "stateCommitting" /\ DeliverCommitDone /\ ev'.err = Nil) ]_vars

\* the approve key was handled in stateConfirm
C2_Witness ==
  /\ state = "stateCommitting"
  /\ ev.kind = "key"
  /\ ev.key = "Y"

\* C3: esc in stateEditing returns to stateConfirm with commitMessage equal
\* to the draft as it was when the edit key was pressed, whatever was typed.
C3_EscRestoresDraft ==
  [][(state = "stateEditing" /\ KeyStep({"esc"}))
       => (state' = "stateConfirm" /\ commitMessage' = editDraft)]_vars

\* esc was pressed after the text had been edited into something else
C3_Witness ==
  /\ state = "stateConfirm"
  /\ ev.kind = "key"
  /\ ev.key = "esc"
  /\ TrimSpace(tiValue) # <<>>
  /\ TrimSpace(tiValue) # commitMessage

\* C4 as stated: enter in stateEditing returns to stateConfirm with
\* commitMessage equal to the text held by the text input.
C4_EnterKeepsTextAsIs ==
  [][(state = "stateEditing" /\ KeyStep({"enter"}))
       => (state' = "stateConfirm" /\ commitMessage' = tiValue)]_vars

\* C4: enter in stateEditing returns to stateConfirm with commitMessage equal
\* to the text of the text input without leading and trailing white space,
\* or, when that is empty, to the draft as it was when the edit key was pressed.
C4_EnterCommitsTrimmedText ==
  [][(state = "stateEditing" /\ KeyStep({"enter"}))
       => /\ state' = "stateConfirm"
          /\ commitMessage' =
               IF TrimSpace(tiValue) = <<>> THEN editDraft ELSE TrimSpace(tiValue)]_vars

\* enter was pressed on a text that was empty but for white space
C4_Witness ==
  /\ state = "stateConfirm"
  /\ ev.kind = "key"
  /\ ev.key = "enter"
  /\ tiValue # <<>>
  /\ TrimSpace(tiValue) = <<>>
  /\ commitMessage # <<>>

CancelKeys == {"q", "ctrl+c"}

\* C5: while loading, a cancel key (q, ctrl+c) ends the run as a cancellation
\* and any other key changes nothing, in the commit model and in the PR model.
C5_LoadingTakesOnlyCancel ==
  [][ /\ (state = "stateLoading" /\ KeyStep(CancelKeys))
           => (quitCmd' /\ UNCHANGED <<mVars, commitIssued, commitCmd>>)
      /\ (state = "stateLoading" /\ KeyStep(Keys \ CancelKeys))
           => UNCHANGED <<mVars, quitCmd, commitIssued, commitCmd>>
      /\ (prState = "prStateLoading" /\ PRKeyStep(CancelKeys))
           => (quitCmd' /\ prState' = "prStateDone" /\ ~confirmed'
               /\ UNCHANGED <<content, prErr>>)
      /\ (prState = "prStateLoading" /\ PRKeyStep(Keys \ CancelKeys))
           => UNCHANGED <<prState, content, renderedBody, confirmed, prErr, quitCmd>> ]_vars

\* the approve key was pressed while the PR content was being generated
C5_Witness ==
  /\ flow = "pr"
  /\ prState = "prStateLoading"
  /\ genCmd
  /\ ev.kind = "key"
  /\ ev.key = "y"

\* C6: in stateCommitting no key press is accepted: none changes the state or
\* commitMessage, quits the program or starts another commit.
C6_CommittingTakesNoKey ==
  [][(state = "stateCommitting" /\ KeyStep(Keys))
       => UNCHANGED <<mVars, quitCmd, commitIssued, commitCmd>>]_vars

\* a cancel key was pressed while the commit was outstanding
C6_Witness ==
  /\ state = "stateCommitting"
  /\ commitCmd = "issued"
  /\ ev.kind = "key"
  /\ ev.key = "ctrl+c"

\* C7: a generation result arriving while loading moves a success to Confirm
\* with the draft set to the generated content, and a failure to Error with
\* the error recorded, in the commit model and in the PR model.
C7_GenerationResult ==
  [][ /\ (state = "stateLoading" /\ DeliverCommitGenerated)
           => IF ev'.err = Nil
                THEN state' = "stateConfirm" /\ commitMessage' = ev'.message
                ELSE state' = "stateError" /\ err' = ev'.err
      /\ (prState = "prStateLoading" /\ DeliverPRGenerated)
           => IF ev'.err = Nil
                THEN prState' = "prStateConfirm" /\ content' = ev'.content
                ELSE prState' = "prStateError" /\ prErr' = ev'.err ]_vars

\* a failed generation was handled by the commit model
C7_Witness ==
  /\ state = "stateError"
  /\ err \in Errs
  /\ ev.kind = "msgCommitGenerated"

\* C8: a msgCommitDone arriving in stateCommitting moves a nil error to
\* stateSuccess and a non-nil error to stateError with the error recorded;
\* either way the program is told to quit and the draft is unchanged.
C8_CommitResult ==
  [][(state = "stateCommitting" /\ DeliverCommitDone)
       => /\ IF ev'.err = Nil
               THEN state' = "stateSuccess" /\ UNCHANGED err
               ELSE state' = "stateError" /\ err' = ev'.err
          /\ quitCmd'
          /\ UNCHANGED commitMessage ]_vars

\* a failed commit was handled and the quit is under way
C8_Witness ==
  /\ state = "stateError"
  /\ ev.kind = "msgCommitDone"
  /\ ev.err \in Errs
  /\ quitCmd

\* C9 as stated: once a cancel key was taken while loading, a generation
\* result delivered afterwards changes neither the state, the draft, the
\* recorded error nor the confirmed flag; no commit is started and the PR
\* model's Run returns confirmed = false with a nil error.
C9_ResultAfterCancelDiscarded ==
  [][ /\ (cancelled /\ DeliverCommitGenerated) => UNCHANGED <<state, commitMessage, err>>
      /\ (cancelled /\ DeliverPRGenerated)
           => UNCHANGED <<prState, content, prErr, confirmed>>
      /\ (cancelled /\ flow = "commit") => UNCHANGED commitIssued
      /\ (cancelled /\ PRProgramQuit) => (ret'.err = Nil /\ ~ret'.confirmed) ]_vars

\* C10: in a run of the commit TUI the generation request is issued exactly
\* once, by Init, and the commit command at most once; nothing is issued
\* after a failure.
C10_NoRetries ==
  /\ [](flow = "commit" =>
          /\ genIssued = (IF phase = "new" THEN 0 ELSE 1)
          /\ commitIssued <= 1)
  /\ [][(flow = "commit" /\ state = "stateError")
          => UNCHANGED <<genIssued, commitIssued, genCmd>>]_vars

\* a key was pressed after the one commit had failed
C10_Witness ==
  /\ state = "stateError"
  /\ commitIssued = 1
  /\ genIssued = 1
  /\ commitCmd = "none"
  /\ ev.kind = "key"
  /\ ev.key \in {"y", "Y"}

\* C11: the spinner goroutine is joined: once the stop function has returned
\* the goroutine has terminated (or never existed) and writes no further
\* frame, and every caller has invoked stop exactly once when it returns.
C11_SpinnerJoined ==
  /\ [](spStopRet => (spG \in {"none", "exited"} /\ spWg = 0))
  /\ [][spStopRet => UNCHANGED <<spTicks, spG>>]_vars
  /\ [](spStops <= 1 /\ (spPc = "returned" => (spStops = 1 /\ spStopRet)))

\* ensureBranchPushed returned on its error path after the goroutine had
\* written frames and had been joined
C11_Witness ==
  /\ spCaller = "ensureBranchPushed"
  /\ spCmdErr \in Errs
  /\ spPc = "returned"
  /\ spG = "exited"
  /\ spTicks = MaxTicks

\* C12: the spinner's writer is never written by two tasks at once: the first
\* frame is written before the goroutine exists, the clear sequence after it
\* has exited, and the captured output after stop has returned.
C12_OneWriterAtATime ==
  /\ [](~(spMainW # "" /\ spG = "writing"))
  /\ [](spMainW = "first" => spG = "none")
  /\ [](spMainW = "clear" => spG = "exited")
  /\ [](spMainW = "flush" => (spStopRet /\ spG \in {"none", "exited"}))

\* runCommandWithSpinner flushes the captured stderr after a spinner that
\* wrote frames was stopped
C12_Witness ==
  /\ spCaller = "runCommandWithSpinner"
  /\ spMainW = "flush"
  /\ spTerm
  /\ spTicks > 0

\* runPRCreate has shown no prompt, pushed nothing, asked the AI for nothing and
\* run no gh pr command
NothingDone ==
  /\ runPrompts = 0
  /\ runPushes = 0
  /\ runGen = 0
  /\ runTui = 0
  /\ runGh = <<>>

\* C13: an empty commit log or an empty committed diff makes runPRCreate return
\* a non-nil error, and up to that point it has shown no push prompt, pushed
\* nothing, requested no AI generation and run no gh pr create or edit.
C13_EmptyInputIsAnError ==
  /\ (("commitLog" \in runSeen /\ runLog = <<>>) \/ ("diff" \in runSeen /\ runDiff = <<>>))
       => (runPc = "returned" /\ runErr \notin {Nil} /\ NothingDone)
  /\ ("commitLog" \in runSeen /\ runLog = <<>>) => runErr = "no commits found"
  /\ ("diff" \in runSeen /\ runDiff = <<>>) => runErr = "no committed changes"
  /\ runPc \in {"commitLog", "diffStat", "diff"} => NothingDone

\* a run without --dry-run found commits but an empty diff
C13_Witness ==
  /\ ~prDryRun
  /\ "diff" \in runSeen
  /\ runLog # <<>>
  /\ runDiff = <<>>
  /\ runPc = "returned"

\* C14: a cancellation is a success without effect.  In the PR model n, N, q
\* and ctrl+c in prStateConfirm end the program with confirmed = false and no
\* error, and that is what Run returns; declining the push prompt makes
\* ensureBranchPushed return (false, nil); in both cases runPRCreate returns
\* nil and has run no gh pr create or edit.
C14_CancelIsSilentSuccess ==
  /\ [][(prState = "prStateConfirm" /\ PRKeyStep({"n", "N", "q", "ctrl+c"}))
          => (/\ prState' = "prStateDone"
              /\ quitCmd'
              /\ ~PRRunResult'.confirmed
              /\ PRRunResult'.err = Nil)]_vars
  /\ [][(prState = "prStateDone" /\ ~confirmed /\ content # Nil)
          => UNCHANGED <<prState, confirmed, prErr>>]_vars
  /\ []((flow = "pr" /\ phase = "exited")
          => [content |-> ret.content, confirmed |-> ret.confirmed, err |-> ret.err]
               \in TUIResults)
  /\ []((tuiRet.returned /\ tuiRet.err = Nil /\ ~tuiRet.confirmed)
          => (runPc = "returned" /\ runErr = Nil /\ runGh = <<>>))
  /\ [](runAnswer = "no"
          => (/\ ebpRet = [returned |-> TRUE, continue |-> FALSE, err |-> Nil]
              /\ runPc = "returned" /\ runErr = Nil
              /\ runPushes = 0 /\ runGen = 0 /\ runGh = <<>>))

\* the user pushed the branch and then rejected the generated pull request
C14_Witness ==
  /\ runAnswer = "yes"
  /\ runPushes = 1
  /\ tuiRet.returned /\ ~tuiRet.confirmed /\ tuiRet.content # Nil
  /\ runPc = "returned"

\* C15: with --dry-run runPRCreate never writes: it shows no push prompt and no
\* confirmation, runs no git push and no gh pr create or edit; a run that
\* returns nil has printed the generated title and body, unless it stopped at
\* an existing pull request.
C15_DryRunNeverWrites ==
  /\ prDryRun => (/\ runPrompts = 0 /\ runTui = 0 /\ runPushes = 0 /\ runGh = <<>>
                  /\ ~ebpRet.returned /\ ~tuiRet.returned)
  /\ (prDryRun /\ runPc = "returned" /\ runErr = Nil) => (runPrinted \/ runReported)
  /\ runPrinted => (prDryRun /\ runGen = 1 /\ prContent # Nil /\ runPc = "returned")

\* a dry run with --update on a branch that has a pull request printed the
\* generated content
C15_Witness ==
  /\ prDryRun /\ prUpdate
  /\ existingPR \in ExistingPRs
  /\ runPrinted
  /\ runPc = "returned"

\* C16 as stated: with --yes and without --dry-run runPRCreate waits for no
\* yes/no answer on any path.
C16_YesNeverAsks ==
  (prYes /\ ~prDryRun) => (runPrompts = 0 /\ runTui = 0)

\* C16: with --yes and without --dry-run runPRCreate shows no pull request
\* confirmation; the only answer it can wait for is the push prompt of
\* ensureBranchPushed, shown when HEAD is not pushed, and gh pr create or edit
\* runs on the content generated without the TUI.
C16_YesSkipsPRConfirmation ==
  /\ (prYes /\ ~prDryRun) => (runTui = 0 /\ ~tuiRet.returned)
  /\ (prYes /\ ~prDryRun /\ runGh # <<>>)
       => (runGen = 1 /\ prContent # Nil /\ (runPrompts = 1 => runAnswer = "yes"))
  /\ runPrompts > 0 => headPushed = "false"
  /\ (headPushed = "false" /\ runPc \notin {"ebpPrompt"}) => runPrompts = 1

\* with --yes the user was asked whether to push, and the pull request was
\* created
C16_Witness ==
  /\ prYes /\ ~prDryRun
  /\ runPrompts = 1
  /\ runGh = << <<"create">> >>
  /\ runErr = Nil
  /\ runPc = "returned"

\* C17: when FindPullRequest found a pull request, without --update the run
\* reports it and returns nil without push, AI generation or gh pr command,
\* and with --update the only gh pr command is an edit of that pull request;
\* when it found none the only gh pr command is a create.
C17_ExistingPR ==
  /\ (existingPR \in ExistingPRs /\ ~prUpdate)
       => (runPc = "returned" /\ runErr = Nil /\ runReported /\ NothingDone)
  /\ (existingPR \in ExistingPRs /\ prUpdate)
       => runGh \in {<<>>, << <<"edit", existingPR>> >>}
  /\ existingPR = "nil" => runGh \in {<<>>, << <<"create">> >>}
  /\ existingPR = "unknown" => runGh = <<>>
  /\ runReported => (existingPR \in ExistingPRs /\ ~prUpdate)

\* --update edited the pull request that exists
C17_Witness ==
  /\ prUpdate
  /\ existingPR = "#12"
  /\ runGh = << <<"edit", "#12">> >>
  /\ runPc = "returned"

\* positions of the file headers among the first n lines of the diff
HeadersUpTo(n) ==
  { i \in 1..n : Len(diffInput[i]) >= 4 /\ SubSeq(diffInput[i], 1, 4) = <<"+", "+", "+", " ">> }

\* positions after line h of the lines that begin with c but not with c c c
CountedAfter(h, c) ==
  { i \in (h + 1)..Len(diffInput) :
      /\ Len(diffInput[i]) >= 1
      /\ diffInput[i][1] = c
      /\ ~(Len(diffInput[i]) >= 3 /\ diffInput[i][2] = c /\ diffInput[i][3] = c) }

RECURSIVE TotalLines(_, _)
\* sum over files of the added (f = "AddedLines") or deleted lines
TotalLines(files, f) ==
  IF files = <<>> THEN 0
  ELSE Head(files)[f] + TotalLines(Tail(files), f)

\* C18: for a diff with one file section, of N lines beginning with "+" (not
\* "+++") and M lines beginning with "-" (not "---"), ParseDiffSummary returns
\* one file with addedLines = N and deletedLines = M; for every diff, no line
\* before the first file header is counted for any file.
C18_CountsPerSection ==
  /\ (diffPc = "returned" /\ Cardinality(HeadersUpTo(Len(diffInput))) = 1)
       => LET h == CHOOSE i \in HeadersUpTo(Len(diffInput)) : TRUE
          IN  /\ Len(diffFiles) = 1
              /\ diffFiles[1].AddedLines = Cardinality(CountedAfter(h, "+"))
              /\ diffFiles[1].DeletedLines = Cardinality(CountedAfter(h, "-"))
  /\ (diffPc = "returned" /\ HeadersUpTo(Len(diffInput)) # {})
       => LET h == CHOOSE i \in HeadersUpTo(Len(diffInput)) :
                     \A j \in HeadersUpTo(Len(diffInput)) : i <= j
          IN  /\ TotalLines(diffFiles, "AddedLines") = Cardinality(CountedAfter(h, "+"))
              /\ TotalLines(diffFiles, "DeletedLines") = Cardinality(CountedAfter(h, "-"))
  /\ (flow = "diff" /\ HeadersUpTo(diffPos - 1) = {}) => (diffFiles = <<>> /\ diffCur = 0)

\* the diff has an added line before its only header and an added line after
\* it: the file is reported with one added line
C18_Witness ==
  /\ diffPc = "returned"
  /\ Len(diffInput) = 3
  /\ diffInput[1] = <<"+", "a">>
  /\ HeadersUpTo(3) = {2}
  /\ diffInput[3] = <<"+", "a">>
  /\ diffFiles = << [Name |-> <<"x">>, AddedLines |-> 1, DeletedLines |-> 0] >>

\* position of the first header read so far that names n
FirstSeen(n) ==
  CHOOSE i \in HeadersUpTo(diffPos - 1) :
    /\ SubSeq(diffInput[i], 7, Len(diffInput[i])) = n
    /\ \A j \in HeadersUpTo(diffPos - 1) :
         SubSeq(diffInput[j], 7, Len(diffInput[j])) = n => i <= j

\* C19: a diff without file header gives an empty summary; ParseDiffSummary
\* reads every input to its end and returns a summary, never a failure; the
\* files of the summary are the files named by the headers, each once, in the
\* order in which they were first seen.
C19_NeverFailsFirstSeenOrder ==
  /\ (diffPc = "returned" /\ HeadersUpTo(Len(diffInput)) = {}) => diffFiles = <<>>
  /\ diffPc = "returned" => diffPos = Len(diffInput) + 1
  /\ (flow = "diff" /\ diffPc = "parse") => ENABLED (ParseLine \/ ParseReturn)
  /\ flow = "diff" =>
       /\ \A i \in 1..Len(diffFiles) :
            /\ diffFiles[i].AddedLines \in Nat /\ diffFiles[i].DeletedLines \in Nat
            /\ \E k \in HeadersUpTo(diffPos - 1) :
                 SubSeq(diffInput[k], 7, Len(diffInput[k])) = diffFiles[i].Name
       /\ \A k \in HeadersUpTo(diffPos - 1) :
            \E i \in 1..Len(diffFiles) :
              diffFiles[i].Name = SubSeq(diffInput[k], 7, Len(diffInput[k]))
       /\ \A i, j \in 1..Len(diffFiles) :
            i < j => FirstSeen(diffFiles[i].Name) < FirstSeen(diffFiles[j].Name)

\* y was seen before x, and x was seen twice
C19_Witness ==
  /\ diffPc = "returned"
  /\ Len(diffFiles) = 2
  /\ Len(diffInput) = 3
  /\ diffFiles[1].Name = <<"y">>
  /\ diffFiles[2].Name = <<"x">>
  /\ diffInput[3] = diffInput[2]

\* C20: the edit key exists in the commit model only.  In stateConfirm e and E
\* move to stateEditing; in prStateConfirm they leave the state, the content
\* and the confirmed flag as they are, and the PR model has no editing state.
\* In both models y approves and n, q and ctrl+c end the program.
C20_EditKeyInCommitOnly ==
  /\ [][ /\ (state = "stateConfirm" /\ KeyStep({"e", "E"}))
             => (state' = "stateEditing" /\ tiFocus' /\ UNCHANGED quitCmd)
         /\ (state = "stateConfirm" /\ KeyStep({"y", "Y"}))
             => (state' = "stateCommitting" /\ commitIssued' = commitIssued + 1)
         /\ (state = "stateConfirm" /\ KeyStep({"n", "q", "ctrl+c"}))
             => (quitCmd' /\ UNCHANGED <<state, commitIssued>>)
         /\ (prState = "prStateConfirm" /\ PRKeyStep({"e", "E"}))
             => UNCHANGED <<prState, content, confirmed, quitCmd>>
         /\ (prState = "prStateConfirm" /\ PRKeyStep({"y", "Y"}))
             => (confirmed' /\ prState' = "prStateDone" /\ quitCmd')
         /\ (prState = "prStateConfirm" /\ PRKeyStep({"n", "q", "ctrl+c"}))
             => (~confirmed' /\ prState' = "prStateDone" /\ quitCmd') ]_vars
  /\ [](prState \in {"prStateLoading", "prStateConfirm", "prStateDone", "prStateError"})

\* the edit key was pressed in prStateConfirm and the PR model still waits for
\* an answer
C20_Witness ==
  /\ flow = "pr"
  /\ prState = "prStateConfirm"
  /\ ev.kind = "key"
  /\ ev.key \in {"e", "E"}
  /\ content # Nil
  /\ ~quitCmd

\* C22: without --dry-run a gh pr command runs only once the branch is known
\* to be pushed: GetPushStatus reported HeadPushed, or the user answered yes
\* to the push prompt and git push succeeded.  git push never runs without
\* that yes, and a failed push makes runPRCreate return an error before any
\* AI generation, confirmation or gh pr command.
C22_PushedBeforePRWrite ==
  /\ (~prDryRun /\ (runGh # <<>> \/ runPc = "gh"))
       => (/\ ebpRet = [returned |-> TRUE, continue |-> TRUE, err |-> Nil]
           /\ \/ headPushed = "true" /\ runPushes = 0 /\ runPrompts = 0
              \/ headPushed = "false" /\ runAnswer = "yes" /\ runPushes = 1)
  /\ runPushes > 0 => (runAnswer = "yes" /\ headPushed = "false" /\ ~prDryRun)
  /\ (runPushes = 1 /\ runPc # "ebpPush" /\ ebpRet.err # Nil)
       => (/\ runPc = "returned" /\ runErr = ebpRet.err /\ ~ebpRet.continue
           /\ runGen = 0 /\ runTui = 0 /\ runGh = <<>>)
  /\ (runGen > 0 /\ ~prDryRun) => (ebpRet.returned /\ ebpRet.continue /\ ebpRet.err = Nil)

\* the user agreed to push, the push succeeded and the pull request of the
\* branch was edited
C22_Witness ==
  /\ ~prDryRun
  /\ headPushed = "false"
  /\ runAnswer = "yes"
  /\ runPushes = 1
  /\ Len(runGh) = 1
  /\ runGh[1][1] = "edit"
  /\ runPc = "returned"

\* C24: in the PR model confirmed is true only with generated content and no
\* error, so a Run that returns confirmed = true and a nil error returns
\* content, and runPRCreate holds content whenever it builds a gh pr command.
C24_ConfirmedHasContent ==
  /\ confirmed => (content # Nil /\ prErr = Nil)
  /\ (flow = "pr" /\ phase = "exited" /\ ret.confirmed /\ ret.err = Nil) => ret.content # Nil
  /\ (flow = "pr" /\ phase = "exited" /\ ret.confirmed) => (confirmed /\ ret.err = Nil)
  /\ (tuiRet.returned /\ tuiRet.confirmed /\ tuiRet.err = Nil) => prContent = tuiRet.content
  /\ runPc = "gh" => prContent # Nil

\* Run returned the content the user approved
C24_Witness ==
  /\ flow = "pr"
  /\ phase = "exited"
  /\ ret.confirmed
  /\ ret.err = Nil
  /\ ret.content \in PRContents
  /\ ev.kind = "QuitMsg"

\* C21: a failure of ReviewCodeStreaming ends the streaming review model in
\* reviewStateError, and Run returns that error: once the end of the stream
\* has been handled after a failed call, the state is reviewStateError with
\* m.err the error of the call, not reviewStateDisplay with a nil error.
C21_StreamErrorIsTerminalError ==
  /\ (rvStreamErr \in Errs /\ rvState \in {"reviewStateDisplay", "reviewStateError"})
       => (rvState = "reviewStateError" /\ rvErr = rvStreamErr)
  /\ (rvStreamErr \in Errs /\ rvPhase = "exited"
        /\ rvState \in {"reviewStateDisplay", "reviewStateError"})
       => rvRet.err = rvStreamErr

\* the candidates 1..n of a loop of FindPullRequestTemplate
UpTo(loop, n) == { <<loop, i>> : i \in 1..n }

\* all candidates of a loop
AllOf(loop) == UpTo(loop, Len(templateFileCandidates))

\* name is the smallest template file of the listing the template came from
SmallestOfListing(name) ==
  /\ \E x \in tplListing : x.name = name /\ ~x.isDir /\ HoldsTemplate({x})
  /\ \A x \in tplListing :
       (~x.isDir /\ HoldsTemplate({x})) => (x.name = name \/ LexLess(name, x.name))

\* C23: FindPullRequestTemplate resolves by fixed priority: the first regular
\* file among templateFileCandidates; otherwise the smallest .md, .markdown or
\* .txt file of the first candidate directory that holds one; otherwise, only
\* with token and owner both non-empty, the organisation's .github repository
\* in the same order.  A local template is returned without any request, and
\* a read error on a local template is returned as an error.
C23_TemplatePriority ==
  LET t == tplRet.template
  IN  /\ ~tplPassedOver
      /\ t.found => (tplRet.err = Nil /\ tplPc = "returned")
      /\ (t.found /\ t.source = "repo" /\ t.name = <<>>)
           => (/\ \E i \in 1..Len(templateFileCandidates) :
                    /\ t.path = templateFileCandidates[i]
                    /\ tplChecked = UpTo("localFiles", i)
               /\ ~tplNet)
      /\ (t.found /\ t.source = "repo" /\ t.name # <<>>)
           => (/\ \E j \in 1..Len(templateDirCandidates) :
                    /\ t.path = templateDirCandidates[j]
                    /\ tplChecked = AllOf("localFiles") \cup UpTo("localDirs", j)
               /\ SmallestOfListing(t.name)
               /\ ~tplNet)
      /\ (t.found /\ t.source = "org" /\ t.name = <<>>)
           => \E i \in 1..Len(templateFileCandidates) :
                /\ t.path = templateFileCandidates[i]
                /\ tplChecked = AllOf("localFiles") \cup AllOf("localDirs")
                                  \cup UpTo("orgFiles", i)
      /\ (t.found /\ t.source = "org" /\ t.name # <<>>)
           => (/\ \E j \in 1..Len(templateDirCandidates) :
                    /\ t.path = templateDirCandidates[j]
                    /\ tplChecked = AllOf("localFiles") \cup AllOf("localDirs")
                                      \cup AllOf("orgFiles") \cup UpTo("orgDirs", j)
               /\ SmallestOfListing(t.name))
      /\ tplNet => (/\ tplToken # "" /\ tplOwner # ""
                    /\ AllOf("localFiles") \cup AllOf("localDirs") \subseteq tplChecked
                    /\ ~tplReadErr)
      /\ tplReadErr => (tplPc = "returned" /\ tplRet.err # Nil /\ ~t.found /\ ~tplNet)
      /\ (tplPc = "returned" /\ ~t.found /\ tplRet.err = Nil)
           => (/\ AllOf("localFiles") \cup AllOf("localDirs") \subseteq tplChecked
               /\ IF tplToken = "" \/ tplOwner = ""
                    THEN ~tplNet
                    ELSE AllOf("orgFiles") \cup AllOf("orgDirs") \subseteq tplChecked)

\* the second candidate directory holds a.md and B.MD, and B.MD is returned
C23_Witness ==
  /\ tplPc = "returned"
  /\ tplRet.template.found
  /\ tplRet.template.source = "repo"
  /\ tplRet.template.path = templateDirCandidates[2]
  /\ tplRet.template.name = <<"B", ".", "M", "D">>
  /\ [name |-> <<"a", ".", "m", "d">>, isDir |-> FALSE] \in tplListing

\* C25: FindPullRequest is deterministic in its inputs: two runs on the same
\* repository, head branch and head owners in which every gh call succeeded
\* return the same pull request.
C25_FindPullRequestDeterministic ==
  \A r, q \in Runs :
    (fpRet[r].returned /\ fpRet[q].returned /\ fpRet[r].err = Nil /\ fpRet[q].err = Nil)
      => fpRet[r].pr = fpRet[q].pr

\* C26: when GetPushStatus returns a nil error RemoteName is not empty;
\* HeadPushed is true only if HEAD was found to be an ancestor of RemoteRef;
\* without upstream RemoteName is origin and RemoteRef is origin/<branch>, and
\* HeadPushed is false when that remote branch does not exist; HeadPushed is
\* false on every error return.
C26_PushStatus ==
  /\ (psPc = "returned" /\ psErr = Nil) => psStatus.RemoteName # <<>>
  /\ psStatus.HeadPushed => (psAncestor = "yes" /\ psPc = "returned" /\ psErr = Nil)
  /\ (psPc = "returned" /\ psErr = Nil /\ ~psStatus.HasUpstream)
       => (/\ psStatus.RemoteName = Origin
           /\ psStatus.RemoteRef = Origin \o <<"/">> \o psBranch
           /\ psStatus.UpstreamRef = <<>>)
  /\ psExists = "no" => (psPc = "returned" /\ psErr = Nil /\ ~psStatus.HeadPushed)
  /\ psErr # Nil => ~psStatus.HeadPushed
  /\ (psPc = "returned" /\ psErr = Nil /\ psStatus.HasUpstream)
       => (psStatus.RemoteRef = psStatus.UpstreamRef /\ psStatus.UpstreamRef # <<>>)

\* the upstream is printed as "/f": the remote name falls back to origin, and
\* HEAD is an ancestor of the upstream
C26_Witness ==
  /\ psPc = "returned"
  /\ psErr = Nil
  /\ psStatus.HasUpstream
  /\ psStatus.UpstreamRef = <<"/", "f">>
  /\ psStatus.RemoteName = Origin
  /\ psStatus.HeadPushed

\* C27: after NewVertexAIClient returns, with or without an error,
\* GOOGLE_APPLICATION_CREDENTIALS reads as it did before the call (an unset or
\* empty variable is unset or empty afterwards) and GELF_CREDENTIALS is
\* untouched; genai.NewClient sees GELF_CREDENTIALS when it is not empty and
\* GOOGLE_APPLICATION_CREDENTIALS otherwise.
C27_EnvironmentRestored ==
  /\ vxPc = "returned" =>
       /\ Getenv(vxEnv, "GOOGLE_APPLICATION_CREDENTIALS")
            = Getenv(vxEnv0, "GOOGLE_APPLICATION_CREDENTIALS")
       /\ Getenv(vxEnv0, "GOOGLE_APPLICATION_CREDENTIALS") # ""
            => vxEnv["GOOGLE_APPLICATION_CREDENTIALS"] = vxEnv0["GOOGLE_APPLICATION_CREDENTIALS"]
       /\ vxEnv["GELF_CREDENTIALS"] = vxEnv0["GELF_CREDENTIALS"]
  /\ vxSeen # "none" =>
       vxSeen = IF Getenv(vxEnv0, "GELF_CREDENTIALS") # ""
                  THEN Getenv(vxEnv0, "GELF_CREDENTIALS")
                  ELSE Getenv(vxEnv0, "GOOGLE_APPLICATION_CREDENTIALS")

\* both variables are set, the client was created from GELF_CREDENTIALS, the
\* creation failed and the other variable has its value back
C27_Witness ==
  /\ vxPc = "returned"
  /\ vxErr # Nil
  /\ vxEnv0["GELF_CREDENTIALS"] = Set("/a")
  /\ vxEnv0["GOOGLE_APPLICATION_CREDENTIALS"] = Set("/b")
  /\ vxSeen = "/a"
  /\ vxEnv["GOOGLE_APPLICATION_CREDENTIALS"] = Set("/b")

====
